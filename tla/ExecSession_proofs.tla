-------------------------- MODULE ExecSession_proofs --------------------------
(* Proofs of the types of ExecSession and of TerminalRestored. *)
EXTENDS ExecSession, TLAPS

(* The channel of sizes is closed only when winch is gone, and winch starts *)
(* once, with the session: it never sends on a closed channel.              *)
ClosedLast ==
  /\ main = "begin" => open
  /\ ~open => winch.pc = "gone"

IInv == TypeOK /\ ClosedLast /\ TerminalRestored

Env == TerminalResized \/ Interrupted \/ GuestEnds

LEMMA Bounds == 0 \in Sizes /\ 0 \in 0 .. MaxFaults /\ 0 <= Cap
BY ConstantsAssumption DEF Sizes

LEMMA InitIInv == Init => IInv
<1> SUFFICES ASSUME Init PROVE IInv
  OBVIOUS
<1>1. out \in Seq(Sizes) /\ Len(out) <= Cap
  BY Bounds DEF Init
<1>2. TypeOK
  BY <1>1, Bounds DEF Init, TypeOK, Start
<1> QED BY <1>2 DEF Init, IInv, ClosedLast, TerminalRestored

LEMMA FaultsOK ==
  ASSUME faults \in 0 .. MaxFaults, Fail \/ UNCHANGED faults
  PROVE  faults' \in 0 .. MaxFaults
BY ConstantsAssumption DEF Fail

LEMMA EnvKeepsTypes ==
  ASSUME TypeOK, Env PROVE TypeOK'
<1>1. local' \in Sizes
  BY ConstantsAssumption DEF TypeOK, Env, TerminalResized, Interrupted, GuestEnds, Sizes
<1>2. sigCh' \in BOOLEAN /\ ctx' \in BOOLEAN /\ ended' \in BOOLEAN
  BY DEF TypeOK, Env, TerminalResized, Interrupted, GuestEnds
<1>3. UNCHANGED <<raws, exec, main, request, winch, out, pump, faults, missed>>
  BY DEF Env, TerminalResized, Interrupted, GuestEnds
<1> QED BY <1>1, <1>2, <1>3 DEF TypeOK, raws, exec

LEMMA MainKeepsTypes ==
  ASSUME TypeOK, Begin \/ RecvEnds \/ BrokenPipe \/ DetachWedges \/ End PROVE TypeOK'
<1>1. faults' \in 0 .. MaxFaults
  <2>1. Fail \/ UNCHANGED faults
    BY DEF Begin, EnterRawMode, PtySize, Connect, ConnectFails, ExecStream,
       ExecStreamFails, FirstResize, FirstResizeFails, RecvEnds, BrokenPipe, DetachWedges, End,
       CloseHandle, Detached, DetachAbandoned, Stop, Wait, Restore, FailsIf
  <2> QED BY <2>1, FaultsOK DEF TypeOK
<1>2. UNCHANGED <<local, ctx, ended, sigCh, out>> /\ missed' \subseteq Sizes
  BY DEF TypeOK, Begin, EnterRawMode, PtySize, Connect, ConnectFails, ExecStream,
       ExecStreamFails, FirstResize, FirstResizeFails, RecvEnds, BrokenPipe, DetachWedges, End,
       CloseHandle, Detached, DetachAbandoned, Stop, Wait, Restore, env
<1>3. /\ main' \in {"begin", "size", "connect", "stream", "resize", "recv", "close",
                   "detach", "wedged", "stop", "wait", "restore", "exit", "killed"}
      /\ terminal' \in {"cooked", "raw"} /\ handle' \in {"none", "open", "closed"}
  BY DEF TypeOK, Begin, EnterRawMode, PtySize, Connect, ConnectFails, ExecStream,
       ExecStreamFails, FirstResize, FirstResizeFails, RecvEnds, BrokenPipe, DetachWedges, End,
       CloseHandle, Detached, DetachAbandoned, Stop, Wait, Restore,
       MainTo, raws, exec
<1>4. {guest', request'} \subseteq Sizes \cup {NoSize, OtherSize}
  BY DEF TypeOK, Begin, EnterRawMode, PtySize, Connect, ConnectFails, ExecStream,
       ExecStreamFails, FirstResize, FirstResizeFails, RecvEnds, BrokenPipe, DetachWedges, End,
       CloseHandle, Detached, DetachAbandoned, Stop, Wait, Restore, exec
<1>5. notify' \in BOOLEAN /\ stop' \in BOOLEAN /\ open' \in BOOLEAN /\ done' \in BOOLEAN
  BY DEF TypeOK, Begin, EnterRawMode, PtySize, Connect, ConnectFails, ExecStream,
       ExecStreamFails, FirstResize, FirstResizeFails, RecvEnds, BrokenPipe, DetachWedges, End,
       CloseHandle, Detached, DetachAbandoned, Stop, Wait, Restore, raws, exec
<1>6. (UNCHANGED winch \/ winch' = Start("select")) /\ (UNCHANGED pump \/ pump' = Start("select"))
  BY DEF TypeOK, Begin, EnterRawMode, PtySize, Connect, ConnectFails, ExecStream,
       ExecStreamFails, FirstResize, FirstResizeFails, RecvEnds, BrokenPipe, DetachWedges, End,
       CloseHandle, Detached, DetachAbandoned, Stop, Wait, Restore
<1>7. Start("select") \in [pc : {"none", "select", "gone"}, size : {NoSize}]
  BY DEF Start
<1> QED BY <1>1, <1>2, <1>3, <1>4, <1>5, <1>6, <1>7 DEF TypeOK

LEMMA WinchKeepsTypes ==
  ASSUME TypeOK, Winch PROVE TypeOK'
<1>1. faults' \in 0 .. MaxFaults
  <2>1. Fail \/ UNCHANGED faults
    BY DEF Winch, ReadSize, ReadSizeFails, SendSize, WinchStops
  <2> QED BY <2>1, FaultsOK DEF TypeOK
<1>2. CASE ReadSize \/ ReadSizeFails \/ WinchStops
  <2>1. sigCh' \in BOOLEAN /\ missed' \subseteq Sizes
    BY <1>2 DEF TypeOK, ReadSize, ReadSizeFails, WinchStops
  <2>2. \/ winch' = winch \/ winch' = Start("gone")
        \/ winch' = [pc |-> "send", size |-> local]
    BY <1>2 DEF ReadSize, ReadSizeFails, WinchStops
  <2>3. /\ local' = local /\ ctx' = ctx /\ ended' = ended /\ terminal' = terminal
        /\ notify' = notify /\ stop' = stop /\ open' = open /\ handle' = handle
        /\ guest' = guest /\ done' = done /\ main' = main /\ request' = request
        /\ out' = out /\ pump' = pump
    BY <1>2 DEF ReadSize, ReadSizeFails, WinchStops, env, raws, exec
  <2>4. \/ winch' \in [pc : {"send"}, size : Sizes]
        \/ winch' \in [pc : {"none", "select", "gone"}, size : {NoSize}]
    <3>1. Start("gone") \in [pc : {"none", "select", "gone"}, size : {NoSize}]
      BY DEF Start
    <3> QED BY <2>2, <3>1 DEF TypeOK
  <2> QED BY <1>1, <2>1, <2>3, <2>4 DEF TypeOK
<1>3. CASE SendSize
  <2>1. winch.size \in Sizes
    BY <1>3 DEF TypeOK, SendSize
  <2>2. out' \in Seq(Sizes) /\ Len(out') <= Cap /\ missed' \subseteq Sizes
    <3>1. Append(out, winch.size) \in Seq(Sizes) /\ Len(Append(out, winch.size)) = Len(out) + 1
      BY <2>1 DEF TypeOK
    <3>2. CASE open /\ Len(out) < Cap
      <4>1. out' = Append(out, winch.size) /\ missed' = missed
        BY <1>3, <3>2 DEF SendSize
      <4>2. Len(out) \in Nat /\ Cap \in Nat
        BY ConstantsAssumption DEF TypeOK
      <4> QED BY <3>1, <3>2, <4>1, <4>2 DEF TypeOK
    <3>3. CASE ~(open /\ Len(out) < Cap)
      <4>1. out' = out /\ missed' = missed \cup {winch.size}
        BY <1>3, <3>3 DEF SendSize
      <4> QED BY <2>1, <4>1 DEF TypeOK
    <3> QED BY <3>2, <3>3
  <2> QED BY <1>1, <1>3, <2>2 DEF TypeOK, SendSize, Start, env, raws, exec
<1> QED BY <1>2, <1>3 DEF Winch

LEMMA PumpKeepsTypes ==
  ASSUME TypeOK, Pump PROVE TypeOK'
<1>1. faults' \in 0 .. MaxFaults
  <2>1. Fail \/ UNCHANGED faults
    BY DEF Pump, TakeSize, PumpStops, Resize, ResizeFails, FailsIf
  <2> QED BY <2>1, FaultsOK DEF TypeOK
<1>2. CASE TakeSize
  <2>1. Head(out) \in Sizes /\ out' \in Seq(Sizes) /\ Len(out') <= Cap
    BY <1>2, ConstantsAssumption DEF TypeOK, TakeSize
  <2> QED BY <1>1, <1>2, <2>1 DEF TypeOK, TakeSize, env, raws, exec
<1>3. CASE PumpStops \/ Resize \/ ResizeFails
  BY <1>1, <1>3 DEF TypeOK, PumpStops, Resize, ResizeFails, Start, env, raws, exec
<1> QED BY <1>2, <1>3 DEF Pump

LEMMA NextKeepsIInv == IInv /\ [Next]_vars => IInv'
<1> SUFFICES ASSUME IInv, [Next]_vars PROVE IInv'
  OBVIOUS
<1>1. TypeOK'
  BY EnvKeepsTypes, MainKeepsTypes, WinchKeepsTypes, PumpKeepsTypes
     DEF IInv, Next, Env, vars, TypeOK, env, raws, exec
<1>2. CASE Env \/ Pump \/ UNCHANGED vars
  <2>1. UNCHANGED <<main, terminal, open, winch>>
    BY <1>2 DEF Env, TerminalResized, Interrupted, GuestEnds, Pump, TakeSize, PumpStops,
       Resize, ResizeFails, raws, vars
  <2> QED BY <1>1, <2>1 DEF IInv, ClosedLast, TerminalRestored
<1>3. CASE Winch
  <2>1. UNCHANGED <<terminal, open>> /\ open /\ UNCHANGED main
    BY <1>3 DEF IInv, ClosedLast, Winch, ReadSize, ReadSizeFails, SendSize, WinchStops, raws
  <2> QED BY <1>1, <2>1 DEF IInv, ClosedLast, TerminalRestored
<1>4. CASE Begin
  BY <1>1, <1>4 DEF IInv, ClosedLast, TerminalRestored, Begin, EnterRawMode, PtySize,
     Connect, ConnectFails, ExecStream, ExecStreamFails, FirstResize, FirstResizeFails,
     MainTo, raws
<1>5. CASE RecvEnds \/ BrokenPipe \/ DetachWedges \/ End
  BY <1>1, <1>5 DEF IInv, ClosedLast, TerminalRestored, RecvEnds, BrokenPipe, DetachWedges, End,
     CloseHandle, Detached, DetachAbandoned, Stop, Wait, Restore, MainTo, raws
<1> QED BY <1>2, <1>3, <1>4, <1>5 DEF Next, Env

LEMMA Inductive == Spec => []IInv
BY InitIInv, NextKeepsIInv, PTL DEF Spec

(* The channels hold sizes of the terminal, never more than their capacity. *)
THEOREM TypeCorrect == Spec => []TypeOK
<1>1. IInv => TypeOK
  BY DEF IInv
<1> QED BY <1>1, Inductive, PTL

(* Whatever the capacity of the channel, the number of resizes and the      *)
(* steps that fail, the process does not end with the terminal raw.         *)
THEOREM NeverLeftRaw == Spec => []TerminalRestored
<1>1. IInv => TerminalRestored
  BY DEF IInv
<1> QED BY <1>1, Inductive, PTL
=============================================================================
