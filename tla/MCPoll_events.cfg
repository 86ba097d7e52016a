CONSTANTS
    f1 = f1  f2 = f2  c1 = c1  c2 = c2
    Files = {f1, f2}
    Clients = {c1, c2}
    Polled <- MCPolled
SPECIFICATION Spec
INVARIANTS TypeOK NobodySleepsOnEvents NoEventIsDropped
PROPERTIES AloneIsTold SomebodyIsTold
