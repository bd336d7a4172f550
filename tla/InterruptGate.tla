--------------------------- MODULE InterruptGate ---------------------------
(***************************************************************************)
(* What the interrupt logic promises: a latch that keeps the latest        *)
(* request, and a gate that lets one request through and shuts behind it.  *)
(* Only an EI of the program or a restart opens it again, and only after   *)
(* the instruction that went through is over.                              *)
(***************************************************************************)
EXTENDS Naturals

CONSTANTS Ops,   \* the instructions a device may request
          None   \* no request

VARIABLES open,      \* the program accepts interrupts
          request,   \* the latched instruction, or None
          served,    \* the requested instruction being executed, or None
          asks,      \* what the program has fetched: EI "open", DI "shut", else "nothing"
          runs       \* how often the host has started a program

gvars == <<open, request, served, asks, runs>>

Init == open = FALSE /\ request = None /\ served = None /\ asks = "nothing" /\ runs = 0

Raise ==
  /\ served = None /\ asks = "nothing"
  /\ request' \in Ops /\ UNCHANGED <<open, served, asks, runs>>

Serve ==
  /\ open /\ request # None /\ served = None /\ asks = "nothing"
  /\ served' = request /\ request' = None /\ open' = FALSE /\ UNCHANGED <<asks, runs>>

Finish == served # None /\ served' = None /\ UNCHANGED <<open, request, asks, runs>>

(* The program fetches EI or DI, and executes it. *)
Ask ==
  /\ served = None /\ asks = "nothing"
  /\ asks' \in {"open", "shut"} /\ UNCHANGED <<open, request, served, runs>>
Switch ==
  /\ asks # "nothing" /\ asks' = "nothing" /\ open' = (asks = "open")
  /\ UNCHANGED <<request, served, runs>>

(* The host starts a program. *)
Reset ==
  /\ served = None /\ asks = "nothing"
  /\ open' = TRUE /\ request' = None /\ runs' = runs + 1 /\ UNCHANGED <<served, asks>>

Next == Raise \/ Serve \/ Finish \/ Ask \/ Switch \/ Reset
Spec == Init /\ [][Next]_gvars
=============================================================================
