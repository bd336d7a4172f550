----------------------------- MODULE CallStack -----------------------------
(***************************************************************************)
(* What the processor's stack promises a program that leaves SP to CALL,   *)
(* RST, PUSH, POP and RET: a pushdown store of words.  A return goes to    *)
(* the address of the newest frame and removes exactly that frame.         *)
(***************************************************************************)
EXTENDS Integers, Sequences

VARIABLES pc, frames,
          runs    \* how often a program was started

Addr == 0 .. 65535
Top    == frames[Len(frames)]
Popped == SubSeq(frames, 1, Len(frames) - 1)

Init == pc = 0 /\ frames = <<>> /\ runs = 0

(* An instruction that does not touch the stack.                           *)
Advance == pc' \in Addr /\ UNCHANGED <<frames, runs>>

(* A call remembers the address behind its operand, a restart or an        *)
(* injected restart the place the processor is at.                         *)
Call == /\ pc' \in Addr /\ UNCHANGED runs
        /\ \E operand \in {0, 2} : frames' = Append(frames, (pc + operand) % 65536)
Return == frames # <<>> /\ pc' = Top /\ frames' = Popped /\ UNCHANGED runs

(* Data on the stack: control stays where it is.                           *)
Push == /\ UNCHANGED <<pc, runs>>
        /\ Len(frames') = Len(frames) + 1 /\ SubSeq(frames', 1, Len(frames)) = frames
Pop == UNCHANGED <<pc, runs>> /\ frames # <<>> /\ frames' = Popped

(* A program starts with an empty stack.                                   *)
Restart == pc' \in Addr /\ frames' = <<>> /\ runs' = runs + 1

Next == Advance \/ Call \/ Return \/ Push \/ Pop \/ Restart
Spec == Init /\ [][Next]_<<pc, frames, runs>>
=============================================================================
