----------------------------- MODULE ExecSession -----------------------------
(***************************************************************************)
(* exec -pty on a terminal: raw mode and its clean-up, the two bounded     *)
(* channels on which size changes reach the guest's PTY, and the end of    *)
(* the session.  Three goroutines take part: main, which runs the exec;    *)
(* winch, which answers SIGWINCH; and pump, which resizes the guest's PTY. *)
(*                                                                         *)
(* The sizes the local terminal takes are numbered; the guest, its daemon  *)
(* and the SDK are external.  ctx is cancelled by SIGINT, SIGTERM, SIGHUP  *)
(* and SIGQUIT, and the SDK's calls return then; only Detach may not.      *)
(* What is copied is left out, but not that writing it may kill the        *)
(* process; and so are sessions without a terminal, which have neither     *)
(* winch nor pump.                                                         *)
(***************************************************************************)
EXTENDS Integers, Sequences

CONSTANTS
  Cap,         \* capacity of the channel of sizes (4 in the code)
  MaxResizes,  \* bound on changes of the terminal's size
  MaxFaults    \* bound on failed steps

ASSUME ConstantsAssumption == Cap \in Nat \ {0} /\ MaxResizes \in Nat /\ MaxFaults \in Nat

VARIABLES
  local,     \* size of the local terminal
  terminal,  \* "cooked" or "raw"
  main,      \* where main is
  request,   \* ExecRequest.Rows, Cols
  notify,    \* SIGWINCH is delivered to sigCh
  sigCh,     \* a signal waits there; the channel holds one
  stop,      \* stop is closed
  winch,     \* [pc, size]
  out, open, \* the channel of sizes: its content, and that it is not closed
  pump,      \* [pc, size]
  done,      \* done is closed
  ctx,       \* ctx is cancelled
  handle,    \* the exec's handle: "none", "open" or "closed"
  guest,     \* size of the guest's PTY
  ended,     \* the guest's command has ended
  faults,
  missed     \* sizes that were dropped or passed over, or whose reading or
             \* resize failed

env == <<local, ctx, ended>>
raws == <<terminal, notify, stop, open>>
exec == <<handle, guest, done>>
vars == <<env, raws, exec, main, request, sigCh, winch, out, pump, faults, missed>>

-----------------------------------------------------------------------------
NoSize == -1
OtherSize == -2   \* -rows and -cols, or 24x80
Sizes == 0 .. MaxResizes
Start(pc) == [pc |-> pc, size |-> NoSize]

Init ==
  /\ local = 0 /\ ctx = FALSE /\ ended = FALSE
  /\ terminal = "cooked" /\ notify = FALSE /\ stop = FALSE /\ open = TRUE
  /\ handle = "none" /\ guest = NoSize /\ done = FALSE
  /\ main = "begin" /\ request = NoSize
  /\ sigCh = FALSE /\ winch = Start("none") /\ out = <<>> /\ pump = Start("none")
  /\ faults = 0 /\ missed = {}

Fail == faults < MaxFaults /\ faults' = faults + 1
FailsIf(reason) == (reason /\ UNCHANGED faults) \/ Fail
MainTo(from, to) == main = from /\ main' = to

-----------------------------------------------------------------------------
(* Environment *)

(* A signal that finds one waiting is dropped by the Go runtime. *)
TerminalResized ==
  /\ local < MaxResizes /\ local' = local + 1
  /\ sigCh' = (sigCh \/ notify)
  /\ UNCHANGED <<ctx, ended, raws, exec, main, request, winch, out, pump, faults, missed>>

Interrupted ==
  /\ ~ctx /\ ctx' = TRUE
  /\ UNCHANGED <<local, ended, raws, exec, main, request, sigCh, winch, out, pump, faults, missed>>

GuestEnds ==
  /\ handle = "open" /\ ~ended /\ ended' = TRUE
  /\ UNCHANGED <<local, ctx, raws, exec, main, request, sigCh, winch, out, pump, faults, missed>>

-----------------------------------------------------------------------------
(* main: runExec, Exec, streamExec *)

EnterRawMode ==
  /\ MainTo("begin", "size")
  /\ terminal' = "raw" /\ notify' = TRUE /\ winch' = Start("select")
  /\ UNCHANGED <<env, stop, open, exec, request, sigCh, out, pump, faults, missed>>

(* The size is read after SIGWINCH is asked for: a change in between comes  *)
(* both ways, one after it on the channel.  The flags come before it, and   *)
(* without flags or a size, 24x80.                                          *)
PtySize ==
  /\ MainTo("size", "connect")
  /\ \/ request' = local /\ UNCHANGED missed
     \/ request' = OtherSize /\ missed' = missed \cup {local}
  /\ UNCHANGED <<env, raws, exec, sigCh, winch, out, pump, faults>>

Connect ==
  /\ MainTo("connect", "stream")
  /\ UNCHANGED <<env, raws, exec, request, sigCh, winch, out, pump, faults, missed>>

(* No such sandbox, or no connection. *)
ConnectFails ==
  /\ MainTo("connect", "stop") /\ FailsIf(ctx)
  /\ UNCHANGED <<env, raws, exec, request, sigCh, winch, out, pump, missed>>

ExecStream ==
  /\ MainTo("stream", "resize") /\ handle' = "open"
  /\ UNCHANGED <<env, raws, guest, done, request, sigCh, winch, out, pump, faults, missed>>

ExecStreamFails ==
  /\ MainTo("stream", "detach") /\ FailsIf(ctx)
  /\ UNCHANGED <<env, raws, exec, request, sigCh, winch, out, pump, missed>>

FirstResize ==
  /\ MainTo("resize", "recv")
  /\ guest' = request /\ pump' = Start("select")
  /\ UNCHANGED <<env, raws, handle, done, request, sigCh, winch, out, faults, missed>>

FirstResizeFails ==
  /\ MainTo("resize", "close") /\ FailsIf(ctx \/ ended)
  /\ UNCHANGED <<env, raws, exec, request, sigCh, winch, out, pump, missed>>

(* The loop over Recv ends with the guest, with ctx, or with an error, of   *)
(* Recv or of a write to anything but a broken pipe.                        *)
RecvEnds ==
  /\ MainTo("recv", "close") /\ FailsIf(ended \/ ctx)
  /\ done' = TRUE
  /\ UNCHANGED <<env, raws, handle, guest, request, sigCh, winch, out, pump, missed>>

(* Nobody reads standard output or standard error any more: the write of    *)
(* what the guest said, or of an error before the clean-up, raises SIGPIPE, *)
(* which main does not ask for and Go lets kill the process.                *)
BrokenPipe ==
  /\ MainTo("recv", "killed") \/ MainTo("stop", "killed")
  /\ Fail
  /\ UNCHANGED <<env, raws, exec, request, sigCh, winch, out, pump, missed>>

CloseHandle ==
  /\ MainTo("close", "detach") /\ handle' = "closed"
  /\ UNCHANGED <<env, raws, guest, done, request, sigCh, winch, out, pump, faults, missed>>

Detached ==
  /\ MainTo("detach", "stop")
  /\ UNCHANGED <<env, raws, exec, request, sigCh, winch, out, pump, faults, missed>>

(* The call is on a goroutine of its own, which is left behind. *)
DetachWedges ==
  /\ MainTo("detach", "wedged") /\ Fail
  /\ UNCHANGED <<env, raws, exec, request, sigCh, winch, out, pump, missed>>

DetachUnbounded ==   \* Defect: main waits for the call.
  /\ main = "wedged" /\ UNCHANGED vars

DetachAbandoned ==
  /\ MainTo("wedged", "stop")
  /\ UNCHANGED <<env, raws, exec, request, sigCh, winch, out, pump, faults, missed>>

(* cleanup *)

StopAndClose ==   \* Defect: out is closed without waiting for winch.
  /\ MainTo("stop", "wait")
  /\ notify' = FALSE /\ stop' = TRUE /\ open' = FALSE
  /\ UNCHANGED <<env, terminal, exec, request, sigCh, winch, out, pump, faults, missed>>

Stop ==
  /\ MainTo("stop", "wait")
  /\ notify' = FALSE /\ stop' = TRUE
  /\ UNCHANGED <<env, terminal, open, exec, request, sigCh, winch, out, pump, faults, missed>>

Wait ==
  /\ MainTo("wait", "restore") /\ winch.pc = "gone"
  /\ open' = FALSE
  /\ UNCHANGED <<env, terminal, notify, stop, exec, request, sigCh, winch, out, pump, faults, missed>>

Restore ==
  /\ MainTo("restore", "exit") /\ terminal' = "cooked"
  /\ UNCHANGED <<env, notify, stop, open, exec, request, sigCh, winch, out, pump, faults, missed>>

-----------------------------------------------------------------------------
(* winch *)

ReadSize ==
  /\ winch.pc = "select" /\ sigCh /\ sigCh' = FALSE
  /\ winch' = [pc |-> "send", size |-> local]
  /\ UNCHANGED <<env, raws, exec, main, request, out, pump, faults, missed>>

ReadSizeFails ==
  /\ winch.pc = "select" /\ sigCh /\ sigCh' = FALSE /\ Fail
  /\ missed' = missed \cup {local}
  /\ UNCHANGED <<env, raws, exec, main, request, winch, out, pump>>

(* A full channel drops the size; a closed one panics, and main is gone     *)
(* with the terminal as it is.                                              *)
SendSize ==
  /\ winch.pc = "send"
  /\ winch' = Start(IF open THEN "select" ELSE "gone")
  /\ main' = IF open THEN main ELSE "exit"
  /\ IF open /\ Len(out) < Cap
     THEN out' = Append(out, winch.size) /\ UNCHANGED missed
     ELSE missed' = missed \cup {winch.size} /\ UNCHANGED out
  /\ UNCHANGED <<env, raws, exec, request, sigCh, pump, faults>>

WinchStops ==
  /\ winch.pc = "select" /\ stop /\ winch' = Start("gone")
  /\ UNCHANGED <<env, raws, exec, main, request, sigCh, out, pump, faults, missed>>

-----------------------------------------------------------------------------
(* pump: pumpResize *)

TakeSize ==
  /\ pump.pc = "select" /\ out # <<>>
  /\ pump' = [pc |-> "resize", size |-> Head(out)] /\ out' = Tail(out)
  /\ UNCHANGED <<env, raws, exec, main, request, sigCh, winch, faults, missed>>

ResizeClosed ==   \* Defect: a closed channel is read like an open one.
  /\ pump.pc = "select"
  /\ \/ (done \/ ctx) /\ pump' = Start("gone")
     \/ ~open /\ out = <<>> /\ pump' = Start("resize")
  /\ UNCHANGED <<env, raws, exec, main, request, sigCh, winch, out, faults, missed>>

PumpStops ==
  /\ pump.pc = "select"
  /\ done \/ ctx \/ (~open /\ out = <<>>)
  /\ pump' = Start("gone")
  /\ UNCHANGED <<env, raws, exec, main, request, sigCh, winch, out, faults, missed>>

Resize ==
  /\ pump.pc = "resize" /\ handle = "open" /\ ~ended
  /\ guest' = pump.size /\ pump' = Start("select")
  /\ UNCHANGED <<env, raws, handle, done, main, request, sigCh, winch, out, faults, missed>>

StopsOnError ==   \* Defect: an error ends the pump.
  /\ pump.pc = "resize" /\ FailsIf(handle = "closed" \/ ended \/ ctx)
  /\ pump' = Start("gone") /\ missed' = missed \cup {pump.size}
  /\ UNCHANGED <<env, raws, exec, main, request, sigCh, winch, out>>

(* The error is dropped. *)
ResizeFails ==
  /\ pump.pc = "resize" /\ FailsIf(handle = "closed" \/ ended \/ ctx)
  /\ pump' = Start("select") /\ missed' = missed \cup {pump.size}
  /\ UNCHANGED <<env, raws, exec, main, request, sigCh, winch, out>>

-----------------------------------------------------------------------------
Begin == EnterRawMode \/ PtySize \/ Connect \/ ConnectFails
         \/ ExecStream \/ ExecStreamFails \/ FirstResize \/ FirstResizeFails
End == CloseHandle \/ Detached \/ DetachAbandoned \/ Stop \/ Wait \/ Restore
Winch == ReadSize \/ ReadSizeFails \/ SendSize \/ WinchStops
Pump == TakeSize \/ PumpStops \/ Resize \/ ResizeFails

Next ==
  \/ TerminalResized \/ Interrupted \/ GuestEnds
  \/ Begin \/ RecvEnds \/ BrokenPipe \/ DetachWedges \/ End \/ Winch \/ Pump

Spec == Init /\ [][Next]_vars

(* Goroutines run; of the two ready cases of a select, none is passed over  *)
(* for ever; the SDK's calls other than Detach return.  Neither the guest's *)
(* command nor the terminal's resizing need end.                            *)
Fairness ==
  /\ WF_vars(Begin) /\ WF_vars((ended \/ ctx) /\ RecvEnds) /\ WF_vars(End)
  /\ WF_vars(ReadSize \/ ReadSizeFails) /\ WF_vars(SendSize) /\ WF_vars(WinchStops)
  /\ WF_vars(TakeSize) /\ WF_vars(Resize \/ ResizeFails)

FairSpec == Spec /\ Fairness

-----------------------------------------------------------------------------
TypeOK ==
  /\ local \in Sizes /\ ctx \in BOOLEAN /\ ended \in BOOLEAN
  /\ terminal \in {"cooked", "raw"}
  /\ notify \in BOOLEAN /\ stop \in BOOLEAN /\ open \in BOOLEAN
  /\ handle \in {"none", "open", "closed"} /\ done \in BOOLEAN
  /\ {guest, request} \subseteq Sizes \cup {NoSize, OtherSize}
  /\ main \in {"begin", "size", "connect", "stream", "resize", "recv", "close",
               "detach", "wedged", "stop", "wait", "restore", "exit", "killed"}
  /\ sigCh \in BOOLEAN
  /\ out \in Seq(Sizes) /\ Len(out) <= Cap
  /\ \/ winch \in [pc : {"send"}, size : Sizes]
     \/ winch \in [pc : {"none", "select", "gone"}, size : {NoSize}]
  /\ \/ pump \in [pc : {"resize"}, size : Sizes]
     \/ pump \in [pc : {"none", "select", "gone"}, size : {NoSize}]
  /\ faults \in 0 .. MaxFaults /\ missed \subseteq Sizes

(* However the session ends, by an error at any step, by a signal, by a     *)
(* wedged daemon or in the middle of a resize, the process never ends by    *)
(* itself, nor by a panic, and leaves the terminal raw.                     *)
TerminalRestored == main = "exit" => terminal = "cooked"

(* doc/pty-exec.md: raw mode is "restored on exit".  A broken pipe kills the *)
(* process before the clean-up: this fails.                                 *)
AlwaysRestored == main \in {"exit", "killed"} => terminal = "cooked"

(* As long as the command runs, the guest gets the size the terminal came   *)
(* to have, unless that very size was dropped or refused, or passed over    *)
(* for the flags or 24x80: a change while the session connects, one that    *)
(* comes with others, and the failure of an earlier resize do not matter.   *)
GuestSizeCatchesUp ==
  \A s \in Sizes :
    (main = "recv" /\ local = s)
      ~> (guest = s \/ s \in missed \/ local # s \/ main # "recv" \/ ctx \/ ended)

(* A session whose command ended, or that was interrupted, ends.  It waits  *)
(* neither for Detach nor for a goroutine that cannot go on.                *)
SessionReturns == (ended \/ ctx) ~> main \in {"exit", "killed"}
=============================================================================
