---------------------------- MODULE TopViewProofs ---------------------------
(***************************************************************************)
(* The terminal of `microwaf top', for any keys, any answers of the daemon *)
(* and errors of every call and every write.                               *)
(***************************************************************************)
EXTENDS TopView, TLAPS

\* The steps at which both guards live, if this is the live view.
Looping == {"call", "waiting", "failed", "draw", "poll", "again", "read"}

\* Which guards live at each step: they are taken one by one and dropped in reverse order.
Guarded ==
  /\ view \in [pc : Looping \cup {"start", "enter_raw", "enter_screen", "drop_screen", "drop_raw",
                                   "returned", "killed"},
              live : BOOLEAN, raw : BOOLEAN, alt : BOOLEAN]
  /\ view.pc \in {"start", "enter_raw", "returned"} => ~view.raw /\ ~view.alt
  /\ view.pc \in {"enter_screen", "drop_raw"} => ~view.alt
  /\ view.pc \in Looping => (view.live <=> view.raw) /\ (view.live <=> view.alt)
  /\ view.pc \in {"enter_raw", "enter_screen"} => view.live

\* Every step of the command, of the user and of the terminal keeps the guards in order.
LEMMA GuardedStep ==
  ASSUME Guarded, [Next]_vars
  PROVE  Guarded'
  <1> USE DEF Guarded, Looping, Go, Guard
  <1>1. CASE UNCHANGED vars
    BY <1>1 DEF vars
  <1>2. CASE Hangup \/ CtrlC \/ \E b \in {"q", "x"} : Type(b)
    BY <1>2 DEF Hangup, CtrlC, Type
  <1>3. CASE Start \/ EnterRaw \/ EnterScreen \/ DropScreen \/ DropRaw
    BY <1>3 DEF Start, EnterRaw, EnterScreen, DropScreen, DropRaw
  <1>4. CASE Call \/ Return \/ Failed
    BY <1>4 DEF Call, Return, Failed
  <1>5. ASSUME view.pc \in Looping, Go(Leave)
        PROVE  Guarded'
    BY <1>5 DEF Leave
  <1>6. CASE Draw
    BY <1>5, <1>6 DEF Draw
  <1>7. CASE PollEnds \/ PollReady
    BY <1>5, <1>7 DEF PollEnds, PollReady
  <1>8. CASE Read
    BY <1>5, <1>8 DEF Read
  <1>9. QED
    BY <1>1, <1>2, <1>3, <1>4, <1>6, <1>7, <1>8 DEF Next, Step

\* However the command returns, the terminal is as before: on every path, errors of each call
\* and each write included, the guards are dropped (Drop of AlternateScreen and RawMode).
THEOREM TopRestoresTerminal == Spec => []TerminalRestored
  <1>1. Init => Guarded
    BY DEF Init, Guarded, Looping
  <1>2. Guarded => TerminalRestored
    BY DEF Guarded, TerminalRestored
  <1>3. QED
    BY <1>1, <1>2, GuardedStep, PTL DEF Spec
=============================================================================
