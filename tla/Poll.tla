--------------------------------- MODULE Poll ---------------------------------
(***************************************************************************)
(* Polling of files in fuse/: a client is told when tags are added to, or  *)
(* taken from, the files it has open (poll_files/).                        *)
(*                                                                         *)
(* The daemon keeps the events of a file until some descriptor polls it,   *)
(* and, per descriptor, the poll handle of the kernel, through which the   *)
(* client that waits on it is woken.  A client polls its files in order,   *)
(* over and over; the kernel puts it in their wait queues during the first *)
(* pass, up to the first file that has something to tell, and asks for a   *)
(* notification (ph not NULL) where it is in the queue.                    *)
(*                                                                         *)
(* One request at a time (-s), each handler atomic.  What tags there are   *)
(* makes no difference: adding and removing a tag notify in any case.      *)
(***************************************************************************)
EXTENDS Naturals, Sequences, FiniteSets

CONSTANTS
    Files,    \* regular files
    Clients,  \* runs of poll_files, one at a time each
    Polled    \* the files of each client, in the order it polls them

ASSUME PolledAssumption == /\ Polled \in [Clients -> Seq(Files)]
                           /\ \A c \in Clients : Len(Polled[c]) > 0

VARIABLES
    revents,  \* f->revents
    fds,      \* per client and file: is it open, and has it a poll handle?
    client,   \* where each client is
    owed      \* history: events of a file that a client was not told yet

vars == <<revents, fds, client, owed>>

Events == {"POLLIN", "POLLOUT"}
Slots(c) == DOMAIN Polled[c]
Descriptors == UNION {{c} \X Slots(c) : c \in Clients}
FileOf(d) == Polled[d[1]][d[2]]
DescriptorsOf(f) == {d \in Descriptors : fds[d].open /\ FileOf(d) = f}

(* In a call of poll: the file to poll next, whether this is the first     *)
(* pass, the queues it is in, what was found, whether it has been woken.   *)
Out == [pc |-> "out", next |-> 1, first |-> TRUE, queued |-> {},
        found |-> {}, woken |-> FALSE]

(* Mutation: the files are counted from zero.                              *)
Starting_at_zero == [Out EXCEPT !.pc = "polling", !.next = 0]

Starting == [Out EXCEPT !.pc = "polling"]

------------------------------------------------------------------------------
(* Mutation: the clients are not woken.                                    *)
notified_quietly(D) == client

(* fuse_notify_poll: the client of the descriptor, if it is in the queue.  *)
notified(D) == [c \in Clients |->
    IF \E d \in D : d[1] = c /\ d[2] \in client[c].queued
    THEN [client[c] EXCEPT !.woken = TRUE] ELSE client[c]]

(* Mutation: the last event replaces those that no one has polled.         *)
recorded_last(f, E) == IF "POLLOUT" \in E THEN {"POLLOUT"} ELSE E

recorded(f, E) == revents[f] \cup E

(* notify_descriptors_poll: nothing is kept where nobody has polled.       *)
notify_descriptors_poll(f, E) ==
    LET D == {d \in DescriptorsOf(f) : fds[d].ph}
    IN  /\ revents' = IF D = {} THEN revents ELSE [revents EXCEPT ![f] = recorded(f, E)]
        /\ client' = notified(D)
        /\ owed' = [d \in Descriptors |->
                      IF d \in DescriptorsOf(f) /\ fds[d].polled THEN owed[d] \cup E ELSE owed[d]]
        /\ UNCHANGED fds

(* link, unlink (or the removal of a whole tag), and rename, which is both.*)
file_add_tag(f) == notify_descriptors_poll(f, {"POLLIN"})
file_remove_tag(f) == notify_descriptors_poll(f, {"POLLOUT"})
file_move_tag(f) == notify_descriptors_poll(f, {"POLLIN", "POLLOUT"})

------------------------------------------------------------------------------
NoFd == [open |-> FALSE, ph |-> FALSE, polled |-> FALSE]

(* fd_open of all its files: no poll handle yet.                           *)
Opens(c) ==
    /\ client[c].pc = "out"
    /\ fds' = [d \in Descriptors |-> IF d[1] = c THEN [NoFd EXCEPT !.open = TRUE] ELSE fds[d]]
    /\ client' = [client EXCEPT ![c] = Starting]
    /\ UNCHANGED <<revents, owed>>

(* The client ends, or is killed: fd_close.  The file keeps its events.    *)
Quits(c) ==
    /\ client[c].pc # "out"
    /\ fds' = [d \in Descriptors |-> IF d[1] = c THEN NoFd ELSE fds[d]]
    /\ client' = [client EXCEPT ![c] = Out]
    /\ owed' = [d \in Descriptors |-> IF d[1] = c THEN {} ELSE owed[d]]
    /\ UNCHANGED revents

(* Mutation: the events go before they are given.                          *)
taken_too_early(f) == {}

taken(f) == revents[f]

tag_poll(c) ==
    LET i == client[c].next
        f == Polled[c][i]
        queues == client[c].first /\ client[c].found = {}
        queued == client[c].queued \cup IF queues THEN {i} ELSE {}
    IN  /\ client[c].pc = "polling" /\ i \in Slots(c)
        /\ fds' = [fds EXCEPT ![<<c, i>>] =
                      [open |-> TRUE, ph |-> i \in queued, polled |-> TRUE]]
        /\ revents' = [revents EXCEPT ![f] = {}]
        /\ client' = [client EXCEPT ![c].next = i + 1, ![c].queued = queued,
                                    ![c].found = @ \cup ({i} \X taken(f))]
        /\ owed' = [owed EXCEPT ![<<c, i>>] = @ \ taken(f)]

(* The kernel, at the end of a pass: poll returns, passes once more if it  *)
(* was woken meanwhile, or waits.                                          *)
PassEnds(c) ==
    /\ client[c].pc = "polling" /\ client[c].next \notin Slots(c)
    /\ client' = [client EXCEPT ![c] =
          IF @.found # {} THEN [@ EXCEPT !.pc = "told", !.queued = {}, !.woken = FALSE]
          ELSE IF @.woken THEN [@ EXCEPT !.next = 1, !.first = FALSE, !.woken = FALSE]
          ELSE [@ EXCEPT !.pc = "waiting"]]
    /\ UNCHANGED <<revents, fds, owed>>

Wakes(c) ==
    /\ client[c].pc = "waiting" /\ client[c].woken
    /\ client' = [client EXCEPT ![c] = [@ EXCEPT !.pc = "polling", !.next = 1,
                                                  !.first = FALSE, !.woken = FALSE]]
    /\ UNCHANGED <<revents, fds, owed>>

(* check_event prints what was found, for each file; and poll again.       *)
check_event(c) ==
    /\ client[c].pc = "told"
    /\ client' = [client EXCEPT ![c] = Starting]
    /\ UNCHANGED <<revents, fds, owed>>

------------------------------------------------------------------------------
Init == /\ revents = [f \in Files |-> {}]
        /\ fds = [d \in Descriptors |-> NoFd]
        /\ client = [c \in Clients |-> Out]
        /\ owed = [d \in Descriptors |-> {}]

Runs(c) == tag_poll(c) \/ PassEnds(c) \/ Wakes(c) \/ check_event(c)

Next == \/ \E f \in Files : file_add_tag(f) \/ file_remove_tag(f) \/ file_move_tag(f)
        \/ \E c \in Clients : Opens(c) \/ Quits(c) \/ Runs(c)

(* A client that runs goes on running, and the daemon answers it; whether  *)
(* anyone tags files, starts or stops clients is left open.                *)
Fairness == \A c \in Clients : WF_vars(Runs(c))
Spec == Init /\ [][Next]_vars /\ Fairness

------------------------------------------------------------------------------
(* Properties.                                                             *)

(* Types.                                                                  *)
TypeOK == /\ revents \in [Files -> SUBSET Events]
          /\ fds \in [Descriptors -> [open : BOOLEAN, ph : BOOLEAN, polled : BOOLEAN]]
          /\ DOMAIN client = Clients
          /\ \A c \in Clients : client[c] \in
                [pc : {"out", "polling", "waiting", "told"}, next : 1..(Len(Polled[c]) + 1),
                 first : BOOLEAN, queued : SUBSET Slots(c),
                 found : SUBSET (Slots(c) \X Events), woken : BOOLEAN]
          /\ owed \in [Descriptors -> SUBSET Events]

(* No wakeup is lost between the passes of poll and the notifications      *)
(* (file.c:16-27): a client sleeps only while its files have no events,    *)
(* however many descriptors take and clear them (tagfs.c:671-672).         *)
NobodySleepsOnEvents ==
    \A c \in Clients : client[c].pc = "waiting" /\ ~client[c].woken =>
        \A i \in Slots(c) : revents[Polled[c][i]] = {}

(* A client that is alone on a file, which it polls first, has a poll      *)
(* handle there from its first poll on, busy or not: no event is dropped   *)
(* (file.c:21).  Of its other files the events are dropped that come while *)
(* it handles one of an earlier file; of a shared file, those that another *)
(* descriptor takes.                                                       *)
Alone(d) == d[2] = 1 /\ \A e \in Descriptors : FileOf(e) = FileOf(d) => e = d
NoEventIsDropped == \A d \in Descriptors : Alone(d) => owed[d] \subseteq revents[FileOf(d)]

(* And it is told of each of them, if it goes on polling.                  *)
AloneIsTold == \A d \in Descriptors, e \in Events :
    Alone(d) => (e \in owed[d] ~> e \notin owed[d])

(* An event that was recorded for a file is told to somebody as long as    *)
(* one client that has the file open goes on, whoever comes and goes.      *)
SomebodyIsTold == \A d \in Descriptors, e \in Events :
    fds[d].open /\ e \in revents[FileOf(d)] ~> ~fds[d].open \/ e \notin revents[FileOf(d)]
==============================================================================
