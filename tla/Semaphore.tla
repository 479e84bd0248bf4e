----------------------------- MODULE Semaphore -----------------------------
(***************************************************************************)
(* What a kernel semaphore promises: a number of permits that up() adds to *)
(* and that a down() which returns has taken one from.                     *)
(***************************************************************************)
EXTENDS Naturals

CONSTANTS Sems, InitialValue

VARIABLE permits   \* [Sems -> Nat]

Init == permits = InitialValue

Up(s) == permits' = [permits EXCEPT ![s] = @ + 1]

Down(s) ==
    /\ permits[s] > 0
    /\ permits' = [permits EXCEPT ![s] = @ - 1]

Next == \E s \in Sems : Up(s) \/ Down(s)

Spec == Init /\ [][Next]_permits
=============================================================================
