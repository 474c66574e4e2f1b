------------------------------ MODULE TopView -------------------------------
(***************************************************************************)
(* The command `microwaf top': its calls to the daemon, the terminal and   *)
(* the keys the user types.                                                *)
(*                                                                         *)
(*   microwaf/src/cli/top.rs     run, run_live, wait_quit_or_timeout,      *)
(*                               RawMode, AlternateScreen                  *)
(*   microwaf/src/cli/client.rs  run, for the command's arguments          *)
(*                                                                         *)
(* A call returns an answer or an error; how is the subject of module Ipc. *)
(* The frame that is drawn is left out.  A key is "q", for q and Q, or "x" *)
(* for any other.  Ctrl+C never is a key: ISIG stays set in raw mode, so   *)
(* the terminal turns it into a signal, which ends the process.            *)
(***************************************************************************)
EXTENDS Naturals, Sequences

CONSTANTS Chunk,    \* bytes that one read takes out of the reader's buffer
          MaxKeys   \* bound: keys typed

VARIABLES view,     \* step of the command and mode of the terminal
          input,    \* bytes the terminal holds
          buffer,   \* bytes in the BufReader of stdin
          closed,   \* has the terminal hung up?
          keys      \* how many keys were typed

vars == <<view, input, buffer, closed, keys>>

ASSUME TopViewAssumption == Chunk \in Nat \ {0} /\ MaxKeys \in Nat

Ended == view.pc \in {"returned", "killed"}

Init ==
  /\ view \in [pc : {"start"}, live : BOOLEAN, raw : {FALSE}, alt : {FALSE}]
  /\ input = <<>> /\ buffer = <<>> /\ closed = FALSE /\ keys = 0

Go(step) == view' = [view EXCEPT !.pc = step]

(***************************************************************************)
(* The user                                                                *)
(***************************************************************************)
Type(b) ==
  /\ keys < MaxKeys /\ ~closed /\ ~Ended
  /\ input' = Append(input, b) /\ keys' = keys + 1
  /\ UNCHANGED <<view, buffer, closed>>

Hangup ==
  /\ ~closed /\ ~Ended
  /\ closed' = TRUE
  /\ UNCHANGED <<view, input, buffer, keys>>

CtrlC ==
  /\ ~Ended /\ ~closed
  /\ Go("killed")
  /\ UNCHANGED <<input, buffer, closed, keys>>

(***************************************************************************)
(* run() and run_live().  Guards are dropped in reverse order, on success  *)
(* and on `?' alike.                                                       *)
(***************************************************************************)
Guard(raw, alt, step) == view' = [view EXCEPT !.raw = raw, !.alt = alt, !.pc = step]

\* --once, --json or no terminal: a single call.
Start ==
  /\ view.pc = "start"
  /\ Go(IF view.live THEN "enter_raw" ELSE "call")
  /\ UNCHANGED <<input, buffer, closed, keys>>

\* tcsetattr() and the escape sequences; an error drops the guards there are.
EnterRaw ==
  /\ view.pc = "enter_raw"
  /\ Guard(TRUE, FALSE, "enter_screen") \/ Go("returned")
  /\ UNCHANGED <<input, buffer, closed, keys>>

EnterScreen ==
  /\ view.pc = "enter_screen"
  /\ Guard(TRUE, TRUE, "call") \/ Go("drop_raw")
  /\ UNCHANGED <<input, buffer, closed, keys>>

\* Mutant: an error returns past the guards.
LeaveLeaks == "returned"

\* Where a return from run_live() goes first.
Leave == IF view.alt THEN "drop_screen" ELSE IF view.raw THEN "drop_raw" ELSE "returned"

DropScreen ==
  /\ view.pc = "drop_screen"
  /\ Guard(view.raw, FALSE, "drop_raw")
  /\ UNCHANGED <<input, buffer, closed, keys>>

DropRaw ==
  /\ view.pc = "drop_raw"
  /\ Guard(FALSE, view.alt, "returned")
  /\ UNCHANGED <<input, buffer, closed, keys>>

\* client.top(): the request is under way, or there is no daemon to connect to.
Call ==
  /\ view.pc = "call"
  /\ Go("waiting") \/ Go("failed")
  /\ UNCHANGED <<input, buffer, closed, keys>>

\* The daemon answers, or its answer is an error or comes after the read timeout.
Return ==
  /\ view.pc = "waiting"
  /\ Go("draw") \/ Go("failed")
  /\ UNCHANGED <<input, buffer, closed, keys>>

\* The live view shows an error and goes on, the single call returns it.
Failed ==
  /\ view.pc = "failed"
  /\ Go(IF view.live THEN "draw" ELSE "returned")
  /\ UNCHANGED <<input, buffer, closed, keys>>

\* write! and flush, which may fail.
Draw ==
  /\ view.pc = "draw"
  /\ Go(IF view.live THEN "poll" ELSE "returned") \/ Go(Leave)
  /\ UNCHANGED <<input, buffer, closed, keys>>

(***************************************************************************)
(* wait_quit_or_timeout(): poll() sees what the terminal holds, not what   *)
(* the reader has buffered.                                                *)
(***************************************************************************)
Ready == input # <<>> \/ closed

\* The interval is over without input, or poll() fails.
PollEnds ==
  /\ view.pc \in {"poll", "again"}
  /\ \/ ~Ready /\ Go("call")
     \/ view.pc = "again" /\ Go("call")
     \/ Go(Leave)
  /\ UNCHANGED <<input, buffer, closed, keys>>

PollReady ==
  /\ view.pc \in {"poll", "again"} /\ Ready
  /\ Go("read")
  /\ UNCHANGED <<input, buffer, closed, keys>>

\* An empty buffer takes all that the terminal holds, then the read its share.
Filled == IF buffer = <<>> THEN input ELSE buffer
Taken == SubSeq(Filled, 1, IF Len(Filled) < Chunk THEN Len(Filled) ELSE Chunk)

\* Mutant: only the first byte is looked at.
QuitsFirst == Taken = <<>> \/ Head(Taken) = "q"

\* An end of file counts as a request to quit.
Quits == Taken = <<>> \/ \E i \in DOMAIN Taken : Taken[i] = "q"

Read ==
  /\ view.pc = "read"
  /\ buffer' = SubSeq(Filled, Len(Taken) + 1, Len(Filled))
  /\ input' = IF buffer = <<>> THEN <<>> ELSE input
  /\ Go(IF Quits THEN Leave ELSE "again")
  /\ UNCHANGED <<closed, keys>>

Step == \/ Start \/ EnterRaw \/ EnterScreen \/ Call \/ Return \/ Failed
        \/ Draw \/ PollEnds \/ PollReady \/ Read \/ DropScreen \/ DropRaw

Next == Step \/ Hangup \/ CtrlC \/ \E b \in {"q", "x"} : Type(b)

\* The command runs: poll() and the socket wake it up at the latest with their
\* timeouts.  Nothing makes the user type or the daemon answer.
Spec == Init /\ [][Next]_vars /\ WF_vars(Step)

-----------------------------------------------------------------------------
(***************************************************************************)
(* Properties                                                              *)
(***************************************************************************)

\* However the command returns, by q, an error or the end of its input, the
\* terminal is as before and no guard is left (the Drops of AlternateScreen and
\* RawMode); only a signal leaves it as it is.
TerminalRestored == view.pc = "returned" => ~view.raw /\ ~view.alt

\* A q ends the live view, and so does a hang-up, even if no thread of the daemon
\* ever serves its calls.  The exception: a q that is read together with so many
\* other bytes that it stays in the reader's buffer waits there for the next key.
Typed(bytes) == \E i \in DOMAIN bytes : bytes[i] = "q"
QuitHeeded ==
  view.live => /\ (Typed(input) ~> (Ended \/ (Typed(buffer) /\ input = <<>>)))
               /\ (closed ~> Ended)
=============================================================================
