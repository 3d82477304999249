------------------------------ MODULE MCDriver ------------------------------
(***************************************************************************)
(* Driver for TLC: two workers and one run of one call through any two     *)
(* events, the same with a call that never answers, and a run that makes   *)
(* two calls in a fork.  `part' says which of the three this behaviour is  *)
(* about.                                                                  *)
(***************************************************************************)
EXTENDS Driver

CONSTANT Calls      \* those of the fork, Call among them

VARIABLE part

driverVars == <<part, vars>>

Once == [hold |-> 1, stop |-> 1, crash |-> 1, lapse |-> 1, fault |-> 1, cancel |-> 1,
         shutdown |-> 1]
Cancelling == [Once EXCEPT !.hold = 0, !.stop = 0, !.fault = 0, !.shutdown = 0]

Silent == INSTANCE Driver WITH Mute <- Call, Budget <- Cancelling

Forked == INSTANCE Driver WITH Call <- Calls, Permits <- 2, MaxEvents <- 1

DriverInit ==
    \/ part = "answering" /\ Init
    \/ part = "silent" /\ Silent!Init
    \/ part = "forked" /\ Forked!Init

DriverNext ==
    /\ \/ part = "answering" /\ Next
       \/ part = "silent" /\ Silent!Next
       \/ part = "forked" /\ Forked!Next
    /\ UNCHANGED part

\* The fairness of Driver, where the behaviour is about what must happen.
DriverIsFair ==
    LET Driven(w, r) ==
            CASE part = "answering" -> Driving(w, r)
              [] part = "silent" -> Silent!Driving(w, r)
              [] OTHER -> FALSE
        Timed == part # "forked"
    IN  /\ \A w \in Worker : WF_vars(Timed /\ Loop(w))
        /\ \A w \in Worker, r \in Run :
             /\ WF_vars(Driven(w, r))
             /\ WF_vars(Timed /\ Heartbeat(w, r)) /\ WF_vars(Timed /\ Stop(w, r))
        /\ \A r \in Run :
             /\ WF_vars(Timed /\ Unhold(r)) /\ WF_vars(Timed /\ Due(r))
             /\ WF_vars(Timed /\ Lapse(r) /\ UNCHANGED left)
        /\ WF_vars(Timed /\ ClearStop)

DriverSpec == DriverInit /\ [][DriverNext]_driverVars /\ DriverIsFair

-----------------------------------------------------------------------------

\* A run whose calls answer ends through every disturbance, and a cancelled one
\* is not driven for ever, though its call may never answer (drive, renew,
\* recovery through the lease's end).
WorkEnds ==
    /\ \A r \in Run : <>(part = "answering" => Ended(r))
    /\ part = "forked" \/ CancelStops
=============================================================================
