----------------------------- MODULE SystemCmd -----------------------------
(***************************************************************************)
(* SystemCmd::run() (src/system_cmd.hpp): starts a command, collects what  *)
(* it writes to its two outputs, and waits for its end by SIGCHLD.         *)
(*                                                                         *)
(* The handlers of other connections run commands and open tuns at the     *)
(* same time, on other threads of the process, and get in its way in three *)
(* places: the numbers of descriptors are one table; a child another       *)
(* thread forks inherits what run() has open; and the end of any child is  *)
(* a SIGCHLD to every run() that waits for one.                            *)
(*                                                                         *)
(* run() closes each end of its pipes twice: launch() and the stream       *)
(* descriptors close them, and so do the destructors of the Pipes.  When   *)
(* another thread has got the number in between, the second close hits     *)
(* what that thread opened; such a state is final here (Stray), as nothing *)
(* can be said of what either thread does from there on.                   *)
(***************************************************************************)
EXTENDS Integers, FiniteSets, FiniteSetsExt

CONSTANTS
  Others,     \* the children that other threads of the process fork
  BufSize,    \* how much of an output fits the buffer that is read into
  MaxOutput,  \* bound: what a command writes to one of its outputs
  MaxTuns     \* bound: the descriptors other threads open

ASSUME CmdAssumption ==
  /\ IsFiniteSet(Others) /\ "command" \notin Others
  /\ BufSize \in Nat \ {0} /\ MaxOutput \in Nat \ {0} /\ MaxTuns \in Nat

Outputs == {"out", "err"}
Ends == Outputs \X {"read", "write"}
Numbers == 1..(Cardinality(Ends) + MaxTuns)

(* How a command ends: by a code, or by a signal.  exit(42) is launch()'s. *)
Signalled == -1
ExecFailed == 42
Endings == {0, ExecFailed, Signalled}

VARIABLES
  at,        \* where run() is
  fds,       \* what each number of a descriptor stands for
  num,       \* the numbers of the four ends
  child,     \* the command: none, running, ended (a zombie), reaped
  ending,    \* how it ended
  execFails, \* its execve() failed
  wrote,     \* how much it wrote to each of its outputs
  others,    \* the other children: none, running, ended
  holds,     \* the outputs whose write end each child has open
  shown,     \* how much of each output was appended to the result
  eof,       \* the outputs whose end was seen
  signal,    \* a SIGCHLD is waiting for the handler
  waiting,   \* the handler is registered
  status,    \* sr.statusCode, whatever the stack held at first
  exitCode,  \* sr.exitCode; nothing reads it before the handler sets it
  guessed,   \* history: the handler took the exit code from such a status
  closed     \* how many of the closes at its end run() has done

process == <<fds, num>>
command == <<child, ending, execFails, wrote>>
heirs == <<others, holds>>
result == <<shown, eof>>
waits == <<signal, waiting, status, exitCode, guessed>>
vars == <<at, process, command, heirs, result, waits, closed>>

(* What a number stands for besides an end of this run()'s pipes.          *)
Free == <<>>
Tun == <<"tun">>
ClosedTun == <<"closed tun">>

Stray == \E n \in Numbers : fds[n] = ClosedTun

Goto(from, to) == ~Stray /\ at = from /\ at' = to

(* close() of the number that run() takes for the end e of its own.        *)
CloseFd(e) ==
  fds' = [fds EXCEPT ![num[e]] = IF @ \in {Free, e} THEN Free ELSE ClosedTun]

(* The kernel gives out the lowest numbers that are free.                  *)
Unused == {n \in Numbers : fds[n] = Free}
Lowest == Min(Unused)
Lowest2 == Min(Unused \ {Lowest})

Init ==
  /\ at = "pipeOut"
  /\ fds = [n \in Numbers |-> Free]
  /\ num = [e \in Ends |-> 0]
  /\ child = "none" /\ ending = 0 /\ execFails = FALSE
  /\ wrote = [o \in Outputs |-> 0]
  /\ others = [c \in Others |-> "none"]
  /\ holds = [c \in Others \cup {"command"} |-> {}]
  /\ shown = [o \in Outputs |-> 0]
  /\ eof = {}
  /\ signal = FALSE /\ waiting = FALSE
  /\ status \in {0, Signalled}
  /\ exitCode = 0
  /\ guessed = FALSE
  /\ closed = 0
-----------------------------------------------------------------------------
(* Pipe::create(), for the standard output, then for the errors.  The set  *)
(* of signals that follows it catches SIGCHLD from here on.                *)
OpenPipe(o) ==
  /\ IF o = "out" THEN Goto("pipeOut", "pipeErr") ELSE Goto("pipeErr", "fork")
  /\ fds' = [fds EXCEPT ![Lowest] = <<o, "read">>, ![Lowest2] = <<o, "write">>]
  /\ num' = [num EXCEPT ![<<o, "read">>] = Lowest, ![<<o, "write">>] = Lowest2]
  /\ waiting' = (o = "err")
  /\ UNCHANGED <<command, heirs, result, signal, status, exitCode, guessed, closed>>

(* Mutant: a pipe that was opened stays open when the other one fails.     *)
PipeFails_Leaks ==
  /\ Goto("pipeErr", "failed")
  /\ UNCHANGED <<process, command, heirs, result, waits, closed>>

(* pipe() fails: run() returns, and the other pipe is closed by its owner. *)
PipeFails ==
  /\ ~Stray /\ at \in {"pipeOut", "pipeErr"}
  /\ at' = "failed"
  /\ fds' = [n \in Numbers |-> IF fds[n] \in Ends THEN Free ELSE fds[n]]
  /\ UNCHANGED <<num, command, heirs, result, waits, closed>>

(* fork(): a child gets a copy of every descriptor.                        *)
Inherited == {o \in Outputs : \E n \in Numbers : fds[n] = <<o, "write">>}

Fork(fails) ==
  /\ Goto("fork", "closeOut")
  /\ child' = "running"
  /\ execFails' = fails
  /\ holds' = [holds EXCEPT !["command"] = Inherited]
  /\ UNCHANGED <<process, ending, wrote, others, result, waits, closed>>

(* fork() fails; launch() goes on with a pid of -1.                        *)
ForkFails ==
  /\ Goto("fork", "closeOut")
  /\ UNCHANGED <<process, command, heirs, result, waits, closed>>

(* Mutant: the parent keeps its copies of the write ends.                  *)
CloseWrite_Forgotten(o) ==
  /\ IF o = "out" THEN Goto("closeOut", "closeErr") ELSE Goto("closeErr", "run")
  /\ UNCHANGED <<process, command, heirs, result, waits, closed>>

(* launch() closes the parent's copies of the write ends.                  *)
CloseWrite(o) ==
  /\ IF o = "out" THEN Goto("closeOut", "closeErr") ELSE Goto("closeErr", "run")
  /\ CloseFd(<<o, "write">>)
  /\ UNCHANGED <<num, command, heirs, result, waits, closed>>
-----------------------------------------------------------------------------
(* The command, in its own process.                                        *)

(* What it writes to an output, all at once: a text of its own, or the     *)
(* "[exec failed]" of launch(), of length 1.                               *)
Writes(o) ==
  /\ ~Stray /\ child = "running" /\ wrote[o] = 0
  /\ \E n \in IF execFails THEN {1} ELSE 1..MaxOutput :
       wrote' = [wrote EXCEPT ![o] = n]
  /\ UNCHANGED <<at, process, child, ending, execFails, heirs, result, waits,
                 closed>>

EndWith(how) ==
  /\ child' = "ended"
  /\ ending' = how
  /\ holds' = [holds EXCEPT !["command"] = {}]
  /\ signal' = (signal \/ waiting)
  /\ UNCHANGED <<at, process, execFails, wrote, others, result, waiting, status,
                 exitCode, guessed, closed>>

CommandEnds ==
  /\ ~Stray /\ child = "running" /\ ~execFails
  /\ \E how \in Endings : EndWith(how)

(* Mutant: exit(42) without "[exec failed]" on the second output.          *)
ExecFailure_Silent ==
  /\ ~Stray /\ child = "running" /\ execFails
  /\ wrote["out"] = 1
  /\ EndWith(ExecFailed)

(* execve() failed: "[exec failed]" on both outputs, then exit(42).        *)
ExecFailure ==
  /\ ~Stray /\ child = "running" /\ execFails
  /\ \A o \in Outputs : wrote[o] = 1
  /\ EndWith(ExecFailed)
-----------------------------------------------------------------------------
(* The other threads.                                                      *)

(* They open a tun, and keep it.                                           *)
OpenTun ==
  /\ ~Stray /\ Cardinality({n \in Numbers : fds[n] = Tun}) < MaxTuns
  /\ fds' = [fds EXCEPT ![Lowest] = Tun]
  /\ UNCHANGED <<at, num, command, heirs, result, waits, closed>>

(* They fork a child, which inherits the ends of the pipes, ...            *)
OtherForks(c) ==
  /\ ~Stray /\ others[c] = "none"
  /\ others' = [others EXCEPT ![c] = "running"]
  /\ holds' = [holds EXCEPT ![c] = Inherited]
  /\ UNCHANGED <<at, process, command, result, waits, closed>>

(* ... and whose end is signalled to this run(), too.                      *)
OtherEnds(c) ==
  /\ ~Stray /\ others[c] = "running"
  /\ others' = [others EXCEPT ![c] = "ended"]
  /\ holds' = [holds EXCEPT ![c] = {}]
  /\ signal' = (signal \/ waiting)
  /\ UNCHANGED <<at, process, command, result, waiting, status, exitCode,
                 guessed, closed>>
-----------------------------------------------------------------------------
(* io_service.run(): the two readers and the handler of SIGCHLD.           *)

(* Mutant: the buffer is appended whole, however little was read.          *)
ReadOn_Whole(o) ==
  /\ ~Stray /\ at = "run" /\ o \notin eof
  /\ wrote[o] > shown[o]
  /\ shown' = [shown EXCEPT ![o] = @ + BufSize]
  /\ UNCHANGED <<at, process, command, heirs, eof, waits, closed>>

(* async_read() calls back when the buffer is full, ...                    *)
ReadOn(o) ==
  /\ ~Stray /\ at = "run" /\ o \notin eof
  /\ wrote[o] - shown[o] >= BufSize
  /\ shown' = [shown EXCEPT ![o] = @ + BufSize]
  /\ UNCHANGED <<at, process, command, heirs, eof, waits, closed>>

(* No process has the write end of the output.                             *)
NoWriter(o) == o \notin Inherited /\ \A c \in DOMAIN holds : o \notin holds[c]

(* Mutant: a buffer that is not full at the end is not appended.           *)
ReadEof_DropsRest(o) ==
  /\ ~Stray /\ at = "run" /\ o \notin eof
  /\ wrote[o] - shown[o] < BufSize /\ NoWriter(o)
  /\ eof' = eof \cup {o}
  /\ UNCHANGED <<at, process, command, heirs, shown, waits, closed>>

(* ... and at the end of the output.                                       *)
ReadEof(o) ==
  /\ ~Stray /\ at = "run" /\ o \notin eof
  /\ wrote[o] - shown[o] < BufSize /\ NoWriter(o)
  /\ shown' = [shown EXCEPT ![o] = wrote[o]]
  /\ eof' = eof \cup {o}
  /\ UNCHANGED <<at, process, command, heirs, waits, closed>>

(* waitpid(WNOHANG) stores the status of a child that has ended, and       *)
(* otherwise leaves it as it is.                                           *)
Reaped == IF child = "ended" THEN ending ELSE status

(* Mutant: the handler is not registered again.                            *)
HandleSignal_Once ==
  /\ ~Stray /\ at = "run" /\ waiting /\ signal
  /\ child # "none"
  /\ signal' = FALSE
  /\ status' = Reaped
  /\ child' = IF child = "ended" THEN "reaped" ELSE child
  /\ waiting' = FALSE
  /\ exitCode' = IF Reaped = Signalled THEN exitCode ELSE Reaped
  /\ guessed' = (guessed \/ (child = "running" /\ Reaped # Signalled))
  /\ UNCHANGED <<at, process, ending, execFails, wrote, heirs, result, closed>>

(* handleSigChild(): done when the status is an exit's, else once more.    *)
HandleSignal ==
  /\ ~Stray /\ at = "run" /\ waiting /\ signal
  /\ child # "none"
  /\ signal' = FALSE
  /\ status' = Reaped
  /\ child' = IF child = "ended" THEN "reaped" ELSE child
  /\ waiting' = (Reaped = Signalled)
  /\ exitCode' = IF Reaped = Signalled THEN exitCode ELSE Reaped
  /\ guessed' = (guessed \/ (child = "running" /\ Reaped # Signalled))
  /\ UNCHANGED <<at, process, ending, execFails, wrote, heirs, result, closed>>

(* waitPid is -1: the handler does nothing and is not registered again.    *)
HandleNothing ==
  /\ ~Stray /\ at = "run" /\ waiting /\ signal
  /\ child = "none"
  /\ signal' = FALSE /\ waiting' = FALSE
  /\ UNCHANGED <<at, process, command, heirs, result, status, exitCode, guessed,
                 closed>>

(* io_service.run() returns when nothing is left to wait for.              *)
Return ==
  /\ ~waiting /\ eof = Outputs
  /\ Goto("run", "closing")
  /\ UNCHANGED <<process, command, heirs, result, waits, closed>>

(* The destructors, in order: both stream descriptors, then both pipes.    *)
Closes ==
  <<<<"err", "read">>, <<"out", "read">>,
    <<"err", "write">>, <<"err", "read">>,
    <<"out", "write">>, <<"out", "read">>>>

Destruct ==
  /\ closed' = closed + 1
  /\ Goto("closing",
          IF closed' = Cardinality(DOMAIN Closes) THEN "returned" ELSE "closing")
  /\ CloseFd(Closes[closed'])
  /\ UNCHANGED <<num, command, heirs, result, waits>>
-----------------------------------------------------------------------------
Run ==
  \/ \E o \in Outputs : OpenPipe(o) \/ CloseWrite(o) \/ ReadOn(o) \/ ReadEof(o)
  \/ PipeFails
  \/ \E fails \in BOOLEAN : Fork(fails)
  \/ ForkFails
  \/ HandleSignal \/ HandleNothing
  \/ Return \/ Destruct

Command == (\E o \in Outputs : Writes(o)) \/ CommandEnds \/ ExecFailure

Other(c) == OtherForks(c) \/ OtherEnds(c)

Next == Run \/ Command \/ OpenTun \/ \E c \in Others : Other(c)

Spec == Init /\ [][Next]_vars

(* The thread of run() goes on, and every process ends.                    *)
FairSpec ==
  /\ Spec
  /\ WF_vars(Run) /\ WF_vars(Command) /\ WF_vars(CommandEnds)
  /\ \A c \in Others : WF_vars(OtherEnds(c))
-----------------------------------------------------------------------------
(* Properties.                                                             *)

(* Every variable keeps its type, and the result has no more than what was *)
(* written (system_cmd.hpp:143-162).                                       *)
TypeOK ==
  /\ at \in {"pipeOut", "pipeErr", "fork", "closeOut", "closeErr", "run",
             "closing", "returned", "failed"}
  /\ fds \in [Numbers -> Ends \cup {Free, Tun, ClosedTun}]
  /\ num \in [Ends -> Numbers \cup {0}]
  /\ child \in {"none", "running", "ended", "reaped"}
  /\ ending \in Endings /\ status \in Endings
  /\ exitCode \in Endings \ {Signalled}
  /\ others \in [Others -> {"none", "running", "ended"}]
  /\ holds \in [Others \cup {"command"} -> SUBSET Outputs]
  /\ \A o \in Outputs : wrote[o] \in 0..MaxOutput /\ shown[o] \in 0..wrote[o]
  /\ eof \subseteq Outputs
  /\ {execFails, signal, waiting, guessed} \subseteq BOOLEAN
  /\ closed \in 0..Cardinality(DOMAIN Closes)

(* run() is through with a command it started.                             *)
Done == at \in {"closing", "returned"} /\ child # "none"

(* The result holds everything the command wrote, and the command has      *)
(* ended, whichever signals the handler saw and whichever other children   *)
(* hold the pipes (system_cmd.hpp:143-162, 187, 193-238).                  *)
WholeOutput == Done => shown = wrote /\ child # "running"

(* The exit code is the command's and its process is reaped, unless the    *)
(* handler was woken by the end of another child before the command's, and *)
(* decoded a status that nobody had stored (system_cmd.hpp:193-206).       *)
ExitCodeIsCommands ==
  Done /\ ~guessed => exitCode = ending /\ child = "reaped"

(* sr.ok says whether the command was executed, with the same exception;   *)
(* what a command writes itself is taken not to be "[exec failed]"         *)
(* (system_cmd.hpp:180-185, 243).                                          *)
Ok == ~(exitCode = ExecFailed /\ execFails /\ \A o \in Outputs : shown[o] = 1)

OkIsExecuted == Done /\ ~guessed => (Ok <=> ~execFails)

(* run() leaves none of its descriptors open, whatever failed              *)
(* (system_cmd.hpp:33-65, 187-188, 209-247).                               *)
FdsReturned ==
  at \in {"returned", "failed"} => \A n \in Numbers : fds[n] \notin Ends

(* run() returns when its command ends by itself, although other children  *)
(* inherited the write ends and their signals wake the handler.  A command *)
(* killed by a signal, and a fork() that failed, are what it may wait for  *)
(* in vain (system_cmd.hpp:193-206, 238).                                  *)
RunReturns ==
  at = "run" ~> \/ at = "returned" \/ Stray
                \/ child = "none"
                \/ child # "running" /\ ending = Signalled
=============================================================================
