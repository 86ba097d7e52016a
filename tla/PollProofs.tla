------------------------------ MODULE PollProofs ------------------------------
(***************************************************************************)
(* Theorems about Poll, for any files and any clients with any lists of    *)
(* files.  What clients are told in the end is liveness, and stays with    *)
(* TLC.                                                                    *)
(***************************************************************************)
EXTENDS Poll, TLAPS

(* In the wait queue of a file, a client has a poll handle there.          *)
QueuedHasHandle == \A c \in Clients : \A i \in client[c].queued :
    fds[<<c, i>>].open /\ fds[<<c, i>>].ph

(* Having found nothing so far, a client is in the queues of the files it  *)
(* has polled; after a pass, of all its files.                             *)
QueuedWherePolled == \A c \in Clients :
    client[c].pc \in {"polling", "waiting"} /\ client[c].found = {} =>
        \A i \in Slots(c) : ~client[c].first \/ i < client[c].next => i \in client[c].queued

(* And what it has polled has no events since, unless it was woken.        *)
PolledIsQuiet == \A c \in Clients :
    client[c].pc \in {"polling", "waiting"} /\ client[c].found = {} /\ ~client[c].woken =>
        \A i \in Slots(c) : i < client[c].next => revents[Polled[c][i]] = {}

WaitsAtTheEnd == \A c \in Clients : client[c].pc = "waiting" =>
    client[c].found = {} /\ client[c].next = Len(Polled[c]) + 1

IInv == TypeOK /\ QueuedHasHandle /\ QueuedWherePolled /\ PolledIsQuiet /\ WaitsAtTheEnd

LEMMA PolledType ==
  \A c \in Clients : /\ Len(Polled[c]) \in Nat \ {0}
                     /\ Slots(c) = 1..Len(Polled[c])
                     /\ \A i \in Slots(c) : Polled[c][i] \in Files
BY PolledAssumption DEF Slots

LEMMA DescriptorsType ==
  /\ \A c \in Clients : \A i \in Slots(c) : <<c, i>> \in Descriptors
  /\ \A d \in Descriptors : /\ d[1] \in Clients /\ d[2] \in Slots(d[1])
                            /\ d = <<d[1], d[2]>> /\ FileOf(d) \in Files
<1>1. \A c \in Clients : \A i \in Slots(c) : <<c, i>> \in Descriptors
  BY DEF Descriptors
<1>2. ASSUME NEW d \in Descriptors
      PROVE  d[1] \in Clients /\ d[2] \in Slots(d[1]) /\ d = <<d[1], d[2]>>
  BY DEF Descriptors
<1> QED BY <1>1, <1>2, PolledType DEF FileOf

(* What a client looks like, on its own: the parts of TypeOK about it.     *)
ClientStates(c) ==
    [pc : {"out", "polling", "waiting", "told"}, next : 1..(Len(Polled[c]) + 1),
     first : BOOLEAN, queued : SUBSET Slots(c),
     found : SUBSET (Slots(c) \X Events), woken : BOOLEAN]

LEMMA OutType ==
  ASSUME NEW c \in Clients
  PROVE  /\ Out \in ClientStates(c) /\ Starting \in ClientStates(c)
         /\ 1 \in 1..(Len(Polled[c]) + 1)
<1>1. 1 \in 1..(Len(Polled[c]) + 1)
  BY PolledType
<1> QED BY <1>1 DEF Out, Starting, ClientStates

(* The invariants of one client, in any state.                             *)
Quiet(c, cl, F, R) ==
    /\ cl \in ClientStates(c)
    /\ \A i \in cl.queued : F[<<c, i>>].open /\ F[<<c, i>>].ph
    /\ cl.pc \in {"polling", "waiting"} /\ cl.found = {} =>
          \A i \in Slots(c) : ~cl.first \/ i < cl.next => i \in cl.queued
    /\ cl.pc \in {"polling", "waiting"} /\ cl.found = {} /\ ~cl.woken =>
          \A i \in Slots(c) : i < cl.next => R[Polled[c][i]] = {}
    /\ cl.pc = "waiting" => cl.found = {} /\ cl.next = Len(Polled[c]) + 1

Tables(R, F, O) ==
    /\ R \in [Files -> SUBSET Events]
    /\ F \in [Descriptors -> [open : BOOLEAN, ph : BOOLEAN, polled : BOOLEAN]]
    /\ O \in [Descriptors -> SUBSET Events]

LEMMA IInvByClient ==
  IInv <=> /\ Tables(revents, fds, owed) /\ DOMAIN client = Clients
           /\ \A c \in Clients : Quiet(c, client[c], fds, revents)
BY DEF IInv, TypeOK, QueuedHasHandle, QueuedWherePolled, PolledIsQuiet, WaitsAtTheEnd,
       Quiet, Tables, ClientStates

LEMMA IInvByClientNext ==
  IInv' <=> /\ Tables(revents', fds', owed') /\ DOMAIN client' = Clients
            /\ \A c \in Clients : Quiet(c, client'[c], fds', revents')
BY DEF IInv, TypeOK, QueuedHasHandle, QueuedWherePolled, PolledIsQuiet, WaitsAtTheEnd,
       Quiet, Tables, ClientStates

(* Nothing is queued, found or passed by a client that starts.             *)
LEMMA StartsQuiet ==
  ASSUME NEW c \in Clients, NEW F, NEW R
  PROVE  Quiet(c, Out, F, R) /\ Quiet(c, Starting, F, R)
<1>1. Out \in ClientStates(c) /\ Starting \in ClientStates(c)
  BY OutType
<1>2. /\ Out.queued = {} /\ Out.pc = "out"
      /\ Starting.queued = {} /\ Starting.pc = "polling" /\ Starting.next = 1
      /\ Starting.first = TRUE /\ Starting.found = {}
  BY DEF Out, Starting
<1>3. \A i \in Slots(c) : ~(i < 1)
  BY PolledType
<1> QED BY <1>1, <1>2, <1>3 DEF Quiet

LEMMA InitIInv == Init => IInv
<1> SUFFICES ASSUME Init PROVE IInv
  OBVIOUS
<1>1. Tables(revents, fds, owed)
  BY DEF Init, Tables, NoFd
<1>2. DOMAIN client = Clients /\ \A c \in Clients : client[c] = Out
  BY DEF Init
<1> QED BY <1>1, <1>2, StartsQuiet, IInvByClient

(* An event reaches every client that would otherwise sleep on it: where   *)
(* it has polled, it has a poll handle, so it is woken.                    *)
LEMMA NotifyIInv ==
  ASSUME IInv, NEW f \in Files, NEW E \in SUBSET Events, notify_descriptors_poll(f, E)
  PROVE  IInv'
<1> DEFINE D == {d \in DescriptorsOf(f) : fds[d].ph}
<1>1. /\ revents' = IF D = {} THEN revents ELSE [revents EXCEPT ![f] = recorded(f, E)]
      /\ client' = notified(D) /\ fds' = fds
  BY DEF notify_descriptors_poll
<1>2. D \subseteq Descriptors
  BY DEF DescriptorsOf
<1>3. Tables(revents, fds, owed) /\ \A c \in Clients : Quiet(c, client[c], fds, revents)
  BY IInvByClient
<1>4. owed' \in [Descriptors -> SUBSET Events]
  BY <1>3 DEF notify_descriptors_poll, Tables
<1>5. revents' \in [Files -> SUBSET Events]
  BY <1>1, <1>3 DEF Tables, recorded
<1>6. DOMAIN client' = Clients
  BY <1>1 DEF notified
<1>7. ASSUME NEW c \in Clients
      PROVE  Quiet(c, client'[c], fds', revents')
  <2> DEFINE Woken == \E d \in D : d[1] = c /\ d[2] \in client[c].queued
  <2>1. client'[c] = IF Woken THEN [client[c] EXCEPT !.woken = TRUE] ELSE client[c]
    BY <1>1 DEF notified
  <2>2. Quiet(c, client[c], fds, revents)
    BY <1>3
  <2>3. CASE Woken
    <3>1. client[c] \in ClientStates(c)
      BY <2>2 DEF Quiet
    <3>2. /\ client'[c] \in ClientStates(c) /\ client'[c].woken = TRUE
          /\ client'[c].pc = client[c].pc /\ client'[c].next = client[c].next
          /\ client'[c].first = client[c].first /\ client'[c].queued = client[c].queued
          /\ client'[c].found = client[c].found
      <4>1. client'[c] = [client[c] EXCEPT !.woken = TRUE]
        BY <2>1, <2>3
      <4> HIDE DEF Woken, D
      <4> QED BY <3>1, <4>1 DEF ClientStates
    <3> HIDE DEF Woken, D
    <3> QED BY <1>1, <2>2, <3>2 DEF Quiet
  <2>4. CASE ~Woken
    <3>1. ASSUME client[c].pc \in {"polling", "waiting"}, client[c].found = {},
                 ~client[c].woken, NEW i \in Slots(c), i < client[c].next
          PROVE  revents'[Polled[c][i]] = {}
      <4>1. i \in client[c].queued /\ revents[Polled[c][i]] = {}
        BY <2>2, <3>1 DEF Quiet
      <4>2. fds[<<c, i>>].open /\ fds[<<c, i>>].ph /\ <<c, i>> \in Descriptors
        BY <2>2, <4>1, DescriptorsType DEF Quiet
      <4>3. CASE Polled[c][i] = f
        <5>1. <<c, i>> \in D
          BY <4>2, <4>3 DEF DescriptorsOf, FileOf
        <5> QED BY <2>4, <4>1, <5>1
      <4>4. CASE Polled[c][i] # f
        <5>1. Polled[c][i] \in Files
          BY PolledType
        <5>2. revents'[Polled[c][i]] = revents[Polled[c][i]]
          BY <1>1, <1>3, <4>4, <5>1 DEF Tables
        <5> QED BY <4>1, <5>2
      <4> QED BY <4>3, <4>4
    <3> QED BY <1>1, <2>1, <2>2, <2>4, <3>1 DEF Quiet
  <2> QED BY <2>3, <2>4
<1> QED BY <1>1, <1>3, <1>4, <1>5, <1>6, <1>7, IInvByClientNext DEF Tables

(* Another client's descriptors and fewer events disturb nobody.           *)
LEMMA OthersQuiet ==
  ASSUME NEW c \in Clients, NEW o \in Clients \ {c}, NEW F, NEW G, NEW R, NEW S,
         Quiet(o, client[o], F, R),
         \A i \in Slots(o) : G[<<o, i>>] = F[<<o, i>>],
         \A f \in Files : S[f] = R[f] \/ S[f] = {}
  PROVE  Quiet(o, client[o], G, S)
<1>1. client[o].queued \subseteq Slots(o)
  BY DEF Quiet, ClientStates
<1>2. \A i \in Slots(o) : Polled[o][i] \in Files
  BY PolledType
<1> QED BY <1>1, <1>2 DEF Quiet

LEMMA PollIInv ==
  ASSUME IInv, NEW c \in Clients, tag_poll(c)
  PROVE  IInv'
<1> DEFINE i == client[c].next
           f == Polled[c][i]
           cl == client'[c]
<1>1. Tables(revents, fds, owed) /\ DOMAIN client = Clients
      /\ \A o \in Clients : Quiet(o, client[o], fds, revents)
  BY IInvByClient
<1>2. client[c] \in ClientStates(c) /\ i \in Slots(c) /\ i \in Nat
  <2>1. client[c] \in ClientStates(c) /\ i \in Slots(c)
    BY <1>1 DEF tag_poll, Quiet
  <2> HIDE DEF i
  <2> QED BY <2>1, PolledType
<1>3. f \in Files /\ <<c, i>> \in Descriptors
  BY <1>2, PolledType, DescriptorsType
<1> DEFINE queues == client[c].first /\ client[c].found = {}
           queued == client[c].queued \cup IF queues THEN {i} ELSE {}
<1>4. /\ client[c].pc = "polling"
      /\ fds' = [fds EXCEPT ![<<c, i>>] = [open |-> TRUE, ph |-> i \in queued, polled |-> TRUE]]
      /\ revents' = [revents EXCEPT ![f] = {}]
      /\ client' = [client EXCEPT ![c] = [client[c] EXCEPT
                       !.next = i + 1, !.queued = queued,
                       !.found = client[c].found \cup ({i} \X taken(f))]]
      /\ owed' = [owed EXCEPT ![<<c, i>>] = owed[<<c, i>>] \ taken(f)]
  BY DEF tag_poll
<1>5. Tables(revents', fds', owed')
  <2>1. (i \in queued) \in BOOLEAN
    OBVIOUS
  <2> QED BY <1>1, <1>3, <1>4, <2>1 DEF Tables
<1>6. taken(f) = revents[f] /\ taken(f) \subseteq Events
  BY <1>1, <1>3 DEF taken, Tables
<1>7. /\ cl.pc = "polling" /\ cl.next = i + 1 /\ cl.queued = queued
      /\ cl.found = client[c].found \cup ({i} \X taken(f))
      /\ cl.first = client[c].first /\ cl.woken = client[c].woken
  BY <1>1, <1>2, <1>4 DEF ClientStates
<1>8. cl \in ClientStates(c)
  <2>1. i + 1 \in 1..(Len(Polled[c]) + 1)
    BY <1>2, PolledType
  <2>2. queued \in SUBSET Slots(c)
    BY <1>2 DEF ClientStates
  <2>3. client[c].found \cup ({i} \X taken(f)) \in SUBSET (Slots(c) \X Events)
    BY <1>2, <1>6 DEF ClientStates
  <2>4. cl = [client[c] EXCEPT !.next = i + 1, !.queued = queued,
                               !.found = client[c].found \cup ({i} \X taken(f))]
    BY <1>1, <1>4
  <2> HIDE DEF queued, i, f, cl
  <2> QED BY <1>2, <2>1, <2>2, <2>3, <2>4 DEF ClientStates
<1>9. \A j \in Slots(c) : fds'[<<c, j>>] =
          IF j = i THEN [open |-> TRUE, ph |-> i \in queued, polled |-> TRUE] ELSE fds[<<c, j>>]
  BY <1>1, <1>4, DescriptorsType DEF Tables
<1>10. Quiet(c, client[c], fds, revents)
  BY <1>1
<1> HIDE DEF cl
<1>11. \A j \in cl.queued : fds'[<<c, j>>].open /\ fds'[<<c, j>>].ph
  <2> SUFFICES ASSUME NEW j \in cl.queued
               PROVE  fds'[<<c, j>>].open /\ fds'[<<c, j>>].ph
    OBVIOUS
  <2>0. j \in queued
    BY <1>7
  <2>1. j \in Slots(c)
    BY <1>2, <2>0 DEF ClientStates
  <2>2. CASE j = i
    <3>1. fds'[<<c, j>>] = [open |-> TRUE, ph |-> i \in queued, polled |-> TRUE]
      BY <1>9, <2>1, <2>2
    <3>2. (i \in queued) = TRUE
      BY <2>0, <2>2
    <3>3. fds'[<<c, j>>] = [open |-> TRUE, ph |-> TRUE, polled |-> TRUE]
      BY <3>1, <3>2, Zenon
    <3> QED BY <3>3
  <2>3. CASE j # i
    <3>1. j \in client[c].queued
      BY <2>0, <2>3
    <3>2. fds'[<<c, j>>] = fds[<<c, j>>]
      BY <1>9, <2>1, <2>3
    <3> QED BY <1>10, <3>1, <3>2 DEF Quiet
  <2> QED BY <2>2, <2>3
<1>12. ASSUME cl.found = {}
       PROVE  client[c].found = {} /\ revents[f] = {}
  <2>1. client[c].found \cup ({i} \X taken(f)) = {}
    BY <1>7, <1>12
  <2>2. \A e \in taken(f) : <<i, e>> \in {i} \X taken(f)
    OBVIOUS
  <2>3. taken(f) = {}
    BY <2>1, <2>2
  <2> QED BY <1>6, <2>1, <2>3
<1>13. ASSUME cl.found = {}, NEW j \in Slots(c), ~cl.first \/ j < cl.next
       PROVE  j \in cl.queued
  <2>1. j < i + 1 => j < i \/ j = i
    BY <1>2, PolledType
  <2>2. CASE j = i /\ client[c].first
    BY <1>7, <1>12, <1>13, <2>2
  <2>3. CASE ~client[c].first \/ j < i
    BY <1>4, <1>7, <1>10, <1>12, <1>13, <2>3 DEF Quiet
  <2> QED BY <1>7, <1>13, <2>1, <2>2, <2>3
<1>14. ASSUME cl.found = {}, ~cl.woken, NEW j \in Slots(c), j < cl.next
       PROVE  revents'[Polled[c][j]] = {}
  <2>1. Polled[c][j] \in Files
    BY PolledType
  <2>2. j < i \/ j = i
    BY <1>2, <1>7, <1>14, PolledType
  <2>3. CASE j = i
    BY <1>1, <1>3, <1>4, <2>3 DEF Tables
  <2>4. CASE j < i
    <3>1. revents[Polled[c][j]] = {}
      BY <1>4, <1>7, <1>10, <1>12, <1>14, <2>4 DEF Quiet
    <3> QED BY <1>1, <1>3, <1>4, <2>1, <3>1 DEF Tables
  <2> QED BY <2>2, <2>3, <2>4
<1>15. Quiet(c, cl, fds', revents')
  BY <1>7, <1>8, <1>11, <1>13, <1>14 DEF Quiet
<1>16. ASSUME NEW o \in Clients \ {c}
       PROVE  Quiet(o, client'[o], fds', revents')
  <2>1. client'[o] = client[o]
    BY <1>1, <1>4
  <2>2. \A j \in Slots(o) : fds'[<<o, j>>] = fds[<<o, j>>]
    BY <1>1, <1>4, DescriptorsType DEF Tables
  <2>3. \A g \in Files : revents'[g] = revents[g] \/ revents'[g] = {}
    BY <1>1, <1>4 DEF Tables
  <2> QED BY <1>1, <2>1, <2>2, <2>3, OthersQuiet
<1>17. DOMAIN client' = Clients
  BY <1>1, <1>4
<1> QED BY <1>5, <1>15, <1>16, <1>17, IInvByClientNext DEF cl

(* The steps of a client that ask the daemon nothing.                      *)
LEMMA ClientIInv ==
  ASSUME IInv, NEW c \in Clients, PassEnds(c) \/ Wakes(c) \/ check_event(c)
  PROVE  IInv'
<1>1. Tables(revents, fds, owed) /\ DOMAIN client = Clients
      /\ \A o \in Clients : Quiet(o, client[o], fds, revents)
  BY IInvByClient
<1>2. Quiet(c, client[c], fds, revents) /\ client[c] \in ClientStates(c)
  BY <1>1 DEF Quiet
<1>3. UNCHANGED <<revents, fds, owed>> /\ DOMAIN client' = Clients
      /\ \A o \in Clients \ {c} : client'[o] = client[o]
  BY <1>1 DEF PassEnds, Wakes, check_event
<1>4. CASE PassEnds(c)
  <2>1. client[c].pc = "polling" /\ client[c].next = Len(Polled[c]) + 1
    BY <1>2, <1>4, PolledType DEF PassEnds, ClientStates
  <2>2. CASE client[c].found # {}
    <3>1. client'[c] = [client[c] EXCEPT !.pc = "told", !.queued = {}, !.woken = FALSE]
      BY <1>1, <1>4, <2>2 DEF PassEnds
    <3>2. /\ client'[c] \in ClientStates(c)
          /\ client'[c].pc = "told" /\ client'[c].queued = {}
      BY <1>2, <3>1 DEF ClientStates
    <3>3. Quiet(c, client'[c], fds, revents)
      BY <3>2 DEF Quiet
    <3> QED BY <1>1, <1>3, <3>3, IInvByClientNext
  <2>3. CASE client[c].found = {} /\ client[c].woken
    <3>1. client'[c] = [client[c] EXCEPT !.next = 1, !.first = FALSE, !.woken = FALSE]
      BY <1>1, <1>4, <2>3 DEF PassEnds
    <3>2. \A j \in Slots(c) : j \in client[c].queued
      BY <1>2, <2>1, <2>3, PolledType DEF Quiet
    <3>3. \A j \in Slots(c) : ~(j < 1)
      BY PolledType
    <3>4. client'[c] \in ClientStates(c)
      BY <1>2, <3>1, OutType DEF ClientStates
    <3>5. Quiet(c, client'[c], fds, revents)
      BY <1>2, <2>1, <3>1, <3>2, <3>3, <3>4 DEF Quiet, ClientStates
    <3> QED BY <1>1, <1>3, <3>5, IInvByClientNext
  <2>4. CASE client[c].found = {} /\ ~client[c].woken
    <3>1. client'[c] = [client[c] EXCEPT !.pc = "waiting"]
      BY <1>1, <1>4, <2>4 DEF PassEnds
    <3>2. Quiet(c, client'[c], fds, revents)
      BY <1>2, <2>1, <2>4, <3>1 DEF Quiet, ClientStates
    <3> QED BY <1>1, <1>3, <3>2, IInvByClientNext
  <2> QED BY <2>2, <2>3, <2>4
<1>5. CASE Wakes(c)
  <2>1. client[c].pc = "waiting" /\ client[c].next = Len(Polled[c]) + 1
        /\ client[c].found = {}
    BY <1>2, <1>5 DEF Wakes, Quiet
  <2>2. client'[c] = [client[c] EXCEPT !.pc = "polling", !.next = 1,
                                       !.first = FALSE, !.woken = FALSE]
    BY <1>1, <1>5 DEF Wakes
  <2>3. \A j \in Slots(c) : j \in client[c].queued
    BY <1>2, <2>1, PolledType DEF Quiet
  <2>4. \A j \in Slots(c) : ~(j < 1)
    BY PolledType
  <2>5. client'[c] \in ClientStates(c)
    BY <1>2, <2>2, OutType DEF ClientStates
  <2>6. Quiet(c, client'[c], fds, revents)
    BY <1>2, <2>2, <2>3, <2>4, <2>5 DEF Quiet, ClientStates
  <2> QED BY <1>1, <1>3, <2>6, IInvByClientNext
<1>6. CASE check_event(c)
  <2>1. client'[c] = Starting
    BY <1>1, <1>6 DEF check_event
  <2> QED BY <1>1, <1>3, <2>1, StartsQuiet, IInvByClientNext
<1> QED BY <1>4, <1>5, <1>6

LEMMA OpensQuitsIInv ==
  ASSUME IInv, NEW c \in Clients, Opens(c) \/ Quits(c)
  PROVE  IInv'
<1>1. Tables(revents, fds, owed) /\ DOMAIN client = Clients
      /\ \A o \in Clients : Quiet(o, client[o], fds, revents)
  BY IInvByClient
<1>2. revents' = revents /\ DOMAIN client' = Clients
      /\ client'[c] \in {Out, Starting}
      /\ \A o \in Clients \ {c} : client'[o] = client[o]
  BY <1>1 DEF Opens, Quits
<1>3. Tables(revents', fds', owed')
  <2>1. \A d \in Descriptors :
           fds'[d] \in {fds[d], NoFd, [NoFd EXCEPT !.open = TRUE]}
    BY DEF Opens, Quits
  <2>2. {NoFd, [NoFd EXCEPT !.open = TRUE]} \subseteq
            [open : BOOLEAN, ph : BOOLEAN, polled : BOOLEAN]
    <3>1. NoFd \in [open : BOOLEAN, ph : BOOLEAN, polled : BOOLEAN]
      BY DEF NoFd
    <3> QED BY <3>1
  <2>3. fds' = [d \in Descriptors |-> fds'[d]]
    BY DEF Opens, Quits
  <2>4. fds' \in [Descriptors -> [open : BOOLEAN, ph : BOOLEAN, polled : BOOLEAN]]
    BY <1>1, <2>1, <2>2, <2>3 DEF Tables
  <2>5. owed' \in [Descriptors -> SUBSET Events]
    BY <1>1 DEF Opens, Quits, Tables
  <2> QED BY <1>1, <1>2, <2>4, <2>5 DEF Tables
<1>4. ASSUME NEW o \in Clients \ {c}
      PROVE  Quiet(o, client'[o], fds', revents')
  <2>1. \A j \in Slots(o) : fds'[<<o, j>>] = fds[<<o, j>>]
    BY DescriptorsType DEF Opens, Quits
  <2> QED BY <1>1, <1>2, <2>1, OthersQuiet
<1>5. Quiet(c, client'[c], fds', revents')
  BY <1>2, StartsQuiet
<1> QED BY <1>2, <1>3, <1>4, <1>5, IInvByClientNext

LEMMA NextIInv == IInv /\ [Next]_vars => IInv'
<1> SUFFICES ASSUME IInv, [Next]_vars PROVE IInv'
  OBVIOUS
<1>1. ASSUME NEW f \in Files, file_add_tag(f) \/ file_remove_tag(f) \/ file_move_tag(f)
      PROVE  IInv'
  <2>1. PICK E \in SUBSET Events : notify_descriptors_poll(f, E)
    BY <1>1 DEF file_add_tag, file_remove_tag, file_move_tag, Events
  <2> QED BY <2>1, NotifyIInv
<1>2. ASSUME NEW c \in Clients, Opens(c) \/ Quits(c) PROVE IInv'
  BY <1>2, OpensQuitsIInv
<1>3. ASSUME NEW c \in Clients, Runs(c) PROVE IInv'
  BY <1>3, PollIInv, ClientIInv DEF Runs
<1>4. CASE UNCHANGED vars
  BY <1>4 DEF vars, IInv, TypeOK, QueuedHasHandle, QueuedWherePolled, PolledIsQuiet,
              WaitsAtTheEnd, DescriptorsOf
<1> QED BY <1>1, <1>2, <1>3, <1>4 DEF Next

LEMMA SleepersQuiet == IInv => NobodySleepsOnEvents
BY PolledType DEF IInv, PolledIsQuiet, WaitsAtTheEnd, NobodySleepsOnEvents

(* No wakeup is lost, for any number of clients with any files in common:  *)
(* one that sleeps has no events to be told (fuse/file.c:16-27,            *)
(* fuse/tagfs.c:660-677).                                                  *)
THEOREM NoLostWakeup == Spec => []NobodySleepsOnEvents
BY InitIInv, NextIInv, SleepersQuiet, PTL DEF Spec

(* The types of the state hold with the invariant (fuse/poll.h,            *)
(* fuse/tagfs.h: struct poll_handle, struct file).                         *)
THEOREM PollTypes == Spec => []TypeOK
<1>1. IInv => TypeOK
  BY DEF IInv
<1> QED BY <1>1, InitIInv, NextIInv, PTL DEF Spec

------------------------------------------------------------------------------
(* A client that is at its first file has found nothing: so in a first     *)
(* pass it is put in the queue there, and in a later one it is in it.      *)
FirstFindsNothing == \A c \in Clients :
    client[c].pc = "polling" /\ client[c].next = 1 => client[c].found = {}

(* So its first file has a poll handle from the first poll on.             *)
FirstHasHandle == \A c \in Clients :
    fds[<<c, 1>>].polled => fds[<<c, 1>>].open /\ fds[<<c, 1>>].ph

FirstInv == IInv /\ FirstFindsNothing /\ FirstHasHandle /\ NoEventIsDropped

LEMMA FirstSlot ==
  ASSUME NEW c \in Clients
  PROVE  1 \in Slots(c) /\ <<c, 1>> \in Descriptors
BY PolledType, DescriptorsType

LEMMA InitFirst == Init => FirstInv
<1> SUFFICES ASSUME Init PROVE FirstInv
  OBVIOUS
<1>1. IInv
  BY InitIInv
<1>2. FirstFindsNothing
  BY DEF Init, FirstFindsNothing, Out
<1>3. FirstHasHandle
  BY FirstSlot DEF Init, FirstHasHandle, NoFd
<1>4. NoEventIsDropped
  BY DEF Init, NoEventIsDropped
<1> QED BY <1>1, <1>2, <1>3, <1>4 DEF FirstInv

(* What is owed is recorded, since the descriptor has a poll handle.       *)
LEMMA NotifyFirst ==
  ASSUME FirstInv, NEW f \in Files, NEW E \in SUBSET Events, notify_descriptors_poll(f, E)
  PROVE  FirstFindsNothing' /\ FirstHasHandle' /\ NoEventIsDropped'
<1> DEFINE D == {d \in DescriptorsOf(f) : fds[d].ph}
<1>1. /\ revents' = IF D = {} THEN revents ELSE [revents EXCEPT ![f] = recorded(f, E)]
      /\ client' = notified(D) /\ fds' = fds
      /\ owed' = [d \in Descriptors |->
                    IF d \in DescriptorsOf(f) /\ fds[d].polled THEN owed[d] \cup E ELSE owed[d]]
  BY DEF notify_descriptors_poll
<1>2. Tables(revents, fds, owed) /\ \A c \in Clients : client[c] \in ClientStates(c)
  BY IInvByClient DEF FirstInv, Quiet
<1>3. FirstFindsNothing'
  <2> SUFFICES ASSUME NEW c \in Clients, client'[c].pc = "polling", client'[c].next = 1
               PROVE  client'[c].found = {}
    BY DEF FirstFindsNothing
  <2>1. client'[c] = [client[c] EXCEPT !.woken = TRUE] \/ client'[c] = client[c]
    BY <1>1 DEF notified
  <2>2. /\ client'[c].pc = client[c].pc /\ client'[c].next = client[c].next
        /\ client'[c].found = client[c].found
    BY <1>2, <2>1 DEF ClientStates
  <2> QED BY <2>2 DEF FirstInv, FirstFindsNothing
<1>4. FirstHasHandle'
  BY <1>1 DEF FirstInv, FirstHasHandle
<1>5. NoEventIsDropped'
  <2> SUFFICES ASSUME NEW d \in Descriptors, Alone(d)
               PROVE  owed'[d] \subseteq revents'[FileOf(d)]
    BY DEF NoEventIsDropped, Alone
  <2>1. owed[d] \subseteq revents[FileOf(d)]
    BY DEF FirstInv, NoEventIsDropped
  <2>2. d[1] \in Clients /\ d = <<d[1], 1>> /\ FileOf(d) \in Files
    BY DescriptorsType DEF Alone
  <2>3. revents[FileOf(d)] \subseteq revents'[FileOf(d)]
    <3>1. \A g \in Files : revents[g] \subseteq revents'[g]
      BY <1>1, <1>2 DEF Tables, recorded
    <3> QED BY <2>2, <3>1
  <2>4. CASE d \in DescriptorsOf(f) /\ fds[d].polled
    <3>1. fds[d].ph /\ FileOf(d) = f
      BY <2>2, <2>4 DEF FirstInv, FirstHasHandle, DescriptorsOf
    <3>2. d \in D
      BY <2>4, <3>1
    <3>3. revents' = [revents EXCEPT ![f] = recorded(f, E)]
      BY <1>1, <3>2
    <3>4. revents'[f] = revents[f] \cup E
      BY <1>2, <3>3 DEF Tables, recorded
    <3>5. owed'[d] = owed[d] \cup E
      BY <1>1, <2>4
    <3> QED BY <2>1, <3>1, <3>4, <3>5
  <2>5. CASE ~(d \in DescriptorsOf(f) /\ fds[d].polled)
    BY <1>1, <2>1, <2>3, <2>5
  <2> QED BY <2>4, <2>5
<1> QED BY <1>3, <1>4, <1>5

(* A poll gives the events of the one file it clears, to the one client    *)
(* that is alone there.                                                    *)
LEMMA PollFirst ==
  ASSUME FirstInv, NEW c \in Clients, tag_poll(c)
  PROVE  FirstFindsNothing' /\ FirstHasHandle' /\ NoEventIsDropped'
<1> DEFINE i == client[c].next
           f == Polled[c][i]
           queues == client[c].first /\ client[c].found = {}
           queued == client[c].queued \cup IF queues THEN {i} ELSE {}
           r == [client[c] EXCEPT !.next = i + 1, !.queued = queued,
                                  !.found = client[c].found \cup ({i} \X taken(f))]
<1>1. Tables(revents, fds, owed) /\ DOMAIN client = Clients
      /\ \A o \in Clients : Quiet(o, client[o], fds, revents)
  BY IInvByClient DEF FirstInv
<1>2. client[c] \in ClientStates(c) /\ client[c].next \in Slots(c)
  BY <1>1 DEF tag_poll, Quiet
<1>3. f \in Files /\ <<c, i>> \in Descriptors /\ i \in Nat /\ i > 0
  BY <1>2, PolledType, DescriptorsType
<1>4. /\ client[c].pc = "polling"
      /\ fds' = [fds EXCEPT ![<<c, i>>] = [open |-> TRUE, ph |-> i \in queued, polled |-> TRUE]]
      /\ revents' = [revents EXCEPT ![f] = {}]
      /\ client' = [client EXCEPT ![c] = r]
      /\ owed' = [owed EXCEPT ![<<c, i>>] = owed[<<c, i>>] \ taken(f)]
  BY DEF tag_poll
<1>5. FirstFindsNothing'
  <2>1. client'[c].next = i + 1 /\ \A o \in Clients \ {c} : client'[o] = client[o]
    BY <1>1, <1>2, <1>4 DEF ClientStates
  <2>2. client'[c].next # 1
    BY <1>3, <2>1
  <2> QED BY <2>1, <2>2 DEF FirstInv, FirstFindsNothing
<1>6. ASSUME i = 1 PROVE 1 \in queued
  <2>1. client[c].found = {}
    BY <1>4, <1>6 DEF FirstInv, FirstFindsNothing
  <2>2. CASE client[c].first
    BY <1>6, <2>1, <2>2
  <2>3. CASE ~client[c].first
    BY <1>1, <1>4, <2>1, <2>3, FirstSlot DEF Quiet
  <2> QED BY <2>2, <2>3
<1>7. FirstHasHandle'
  <2> SUFFICES ASSUME NEW o \in Clients, fds'[<<o, 1>>].polled
               PROVE  fds'[<<o, 1>>].open /\ fds'[<<o, 1>>].ph
    BY DEF FirstHasHandle
  <2>1. CASE o = c /\ i = 1
    <3>1. fds'[<<o, 1>>] = [open |-> TRUE, ph |-> i \in queued, polled |-> TRUE]
      BY <1>1, <1>3, <1>4, <2>1 DEF Tables
    <3>2. (i \in queued) = TRUE
      BY <1>6, <2>1
    <3>3. fds'[<<o, 1>>] = [open |-> TRUE, ph |-> TRUE, polled |-> TRUE]
      BY <3>1, <3>2, Zenon
    <3> QED BY <3>3
  <2>2. CASE ~(o = c /\ i = 1)
    <3>1. fds'[<<o, 1>>] = fds[<<o, 1>>]
      BY <1>1, <1>4, <2>2, FirstSlot DEF Tables
    <3> QED BY <3>1 DEF FirstInv, FirstHasHandle
  <2> QED BY <2>1, <2>2
<1>8. NoEventIsDropped'
  <2> SUFFICES ASSUME NEW d \in Descriptors, Alone(d)
               PROVE  owed'[d] \subseteq revents'[FileOf(d)]
    BY DEF NoEventIsDropped, Alone
  <2>1. owed[d] \subseteq revents[FileOf(d)] /\ FileOf(d) \in Files
    BY DescriptorsType DEF FirstInv, NoEventIsDropped
  <2>2. FileOf(<<c, i>>) = f
    BY DEF FileOf
  <2>3. CASE d = <<c, i>>
    <3>1. owed'[d] = owed[d] \ revents[f] /\ FileOf(d) = f
      BY <1>1, <1>4, <2>2, <2>3 DEF Tables, taken
    <3> QED BY <2>1, <3>1
  <2>4. CASE d # <<c, i>>
    <3>1. FileOf(d) # f
      BY <1>3, <2>2, <2>4 DEF Alone
    <3>2. owed'[d] = owed[d] /\ revents'[FileOf(d)] = revents[FileOf(d)]
      BY <1>1, <1>4, <2>1, <2>4, <3>1 DEF Tables
    <3> QED BY <2>1, <3>2
  <2> QED BY <2>3, <2>4
<1> QED BY <1>5, <1>7, <1>8

(* The next pass begins with nothing found, and the next poll afresh.      *)
LEMMA ClientFirst ==
  ASSUME FirstInv, NEW c \in Clients, PassEnds(c) \/ Wakes(c) \/ check_event(c)
  PROVE  FirstFindsNothing' /\ FirstHasHandle' /\ NoEventIsDropped'
<1>1. DOMAIN client = Clients /\ client[c] \in ClientStates(c)
      /\ (client[c].pc = "waiting" => client[c].found = {})
  BY IInvByClient DEF FirstInv, Quiet
<1>2. UNCHANGED <<revents, fds, owed>> /\ \A o \in Clients \ {c} : client'[o] = client[o]
  BY <1>1 DEF PassEnds, Wakes, check_event
<1>3. FirstHasHandle' /\ NoEventIsDropped'
  BY <1>2 DEF FirstInv, FirstHasHandle, NoEventIsDropped
<1>4. client'[c].pc = "polling" => client'[c].found = {}
  <2>1. CASE PassEnds(c)
    BY <1>1, <2>1 DEF PassEnds, ClientStates
  <2>2. CASE Wakes(c)
    BY <1>1, <2>2 DEF Wakes, ClientStates
  <2>3. CASE check_event(c)
    BY <1>1, <2>3 DEF check_event, Starting, Out
  <2> QED BY <2>1, <2>2, <2>3
<1>5. FirstFindsNothing'
  BY <1>2, <1>4 DEF FirstInv, FirstFindsNothing
<1> QED BY <1>3, <1>5

LEMMA OpensQuitsFirst ==
  ASSUME FirstInv, NEW c \in Clients, Opens(c) \/ Quits(c)
  PROVE  FirstFindsNothing' /\ FirstHasHandle' /\ NoEventIsDropped'
<1>1. DOMAIN client = Clients
  BY IInvByClient DEF FirstInv
<1>2. /\ revents' = revents /\ client'[c] \in {Out, Starting}
      /\ \A o \in Clients \ {c} : client'[o] = client[o]
  BY <1>1 DEF Opens, Quits
<1>3. \A d \in Descriptors : /\ fds'[d] = fds[d] \/ ~fds'[d].polled
                             /\ owed'[d] \subseteq owed[d]
  BY DEF Opens, Quits, NoFd
<1>4. FirstFindsNothing'
  BY <1>2 DEF FirstInv, FirstFindsNothing, Out, Starting
<1>5. FirstHasHandle'
  BY <1>3, FirstSlot DEF FirstInv, FirstHasHandle
<1>6. NoEventIsDropped'
  <2> SUFFICES ASSUME NEW d \in Descriptors, Alone(d)
               PROVE  owed'[d] \subseteq revents'[FileOf(d)]
    BY DEF NoEventIsDropped, Alone
  <2> QED BY <1>2, <1>3 DEF FirstInv, NoEventIsDropped
<1> QED BY <1>4, <1>5, <1>6

LEMMA NextFirst == FirstInv /\ [Next]_vars => FirstInv'
<1> SUFFICES ASSUME FirstInv, [Next]_vars PROVE FirstInv'
  OBVIOUS
<1>1. IInv'
  BY NextIInv DEF FirstInv
<1>2. FirstFindsNothing' /\ FirstHasHandle' /\ NoEventIsDropped'
  <2>1. ASSUME NEW f \in Files, file_add_tag(f) \/ file_remove_tag(f) \/ file_move_tag(f)
        PROVE  FirstFindsNothing' /\ FirstHasHandle' /\ NoEventIsDropped'
    <3>1. PICK E \in SUBSET Events : notify_descriptors_poll(f, E)
      BY <2>1 DEF file_add_tag, file_remove_tag, file_move_tag, Events
    <3> QED BY <3>1, NotifyFirst
  <2>2. ASSUME NEW c \in Clients, Opens(c) \/ Quits(c)
        PROVE  FirstFindsNothing' /\ FirstHasHandle' /\ NoEventIsDropped'
    BY <2>2, OpensQuitsFirst
  <2>3. ASSUME NEW c \in Clients, Runs(c)
        PROVE  FirstFindsNothing' /\ FirstHasHandle' /\ NoEventIsDropped'
    BY <2>3, PollFirst, ClientFirst DEF Runs
  <2>4. CASE UNCHANGED vars
    BY <2>4 DEF vars, FirstInv, FirstFindsNothing, FirstHasHandle, NoEventIsDropped
  <2> QED BY <2>1, <2>2, <2>3, <2>4 DEF Next
<1> QED BY <1>1, <1>2 DEF FirstInv

(* No event is dropped between two polls of a client alone on the file it  *)
(* polls first, whatever the others do: a file that was polled there is    *)
(* registered from then on (fuse/file.c:16-27, fuse/tagfs.c:660-677).      *)
THEOREM EventsAreKept == Spec => []NoEventIsDropped
<1>1. FirstInv => NoEventIsDropped
  BY DEF FirstInv
<1> QED BY <1>1, InitFirst, NextFirst, PTL DEF Spec
==============================================================================
