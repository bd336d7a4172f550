---------------------------- MODULE MCCounting ----------------------------
(***************************************************************************)
(* The program Counting, with a history of what its handler owes.          *)
(***************************************************************************)
EXTENDS MCPrograms

VARIABLE owed   \* activations of the handler: the counted and the outstanding

cvars == <<vars, owed>>

(* The handler was entered and has not yet stored its count: it stands     *)
(* behind PUSH PSW, LDA 252 or INR A.                                      *)
Uncounted == phase = "idle" /\ reg_PC \in {57, 60, 61}

(* A request owes an activation, unless one is latched, whose place it     *)
(* takes.  A start of the program cancels what is latched and cuts short   *)
(* what is not yet counted.                                                *)
Owe ==
  owed' = owed + Truth(raised' # raised /\ ~inte_pending)
               - Truth(starts' # starts /\ inte_pending)
               - Truth(starts' # starts /\ Uncounted)

CountedInit == Init /\ owed = 0
CountedNext == Next /\ Owe
CountedSpec == CountedInit /\ [][CountedNext]_cvars /\ WF_vars(step)

(* Interrupts are invisible to the program: whenever they arrive, nested   *)
(* or not, and wherever an earlier run was cut off by a restart, the sum   *)
(* is 6 and the stack is balanced at the end; and the handler has run      *)
(* exactly once for each request, those excepted that a later one replaced *)
(* in the latch, that a restart cancelled, or that came too late.          *)
CountingResult ==
  Stopped => /\ Peek(ram, 97) = 6
             /\ reg_SP = StackFrom
             /\ Peek(ram, 252) + Truth(inte_pending) = owed
=============================================================================
