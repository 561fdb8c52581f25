--------------------------------- MODULE Tty ---------------------------------
(***************************************************************************)
(* The terminal of lib/osal/fgen_tty.c: the constructor __create, which    *)
(* saves stdin's modes, installs handle_winch and makes stdin raw;         *)
(* tty_setup, which moves the input to another descriptor; tty_destroy,    *)
(* called by the program and again by the destructor; the flag word that   *)
(* the color functions share with them; and the window size, written by    *)
(* the SIGWINCH handler and polled by a reader with tty_did_wchange.       *)
(*                                                                         *)
(* The kernel runs the handler on any thread that does not block SIGWINCH, *)
(* one signal a thread at a time; a signal already pending is not queued   *)
(* twice.  The handler's and the reader's accesses to the two halves of    *)
(* the size are separate steps.                                            *)
(***************************************************************************)
EXTENDS Integers

CONSTANTS
  Terminals,        \* descriptors of terminals, stdin's (0) among them
  Sockets,          \* other descriptors tty_setup may be given
  Sizes,            \* sizes a window can have: <<rows, columns>>
  Threads,          \* threads that take SIGWINCH
  FirstActions,     \* dispositions of SIGWINCH the program may inherit
  OtherColorThread  \* the color functions are called from another thread

STDIN_FILENO == 0

Fds == Terminals \cup Sockets
Numbers == {s[1] : s \in Sizes} \cup {s[2] : s \in Sizes} \cup {0}

ASSUME TtyAssumption ==
  /\ Terminals \cap Sockets = {}
  /\ STDIN_FILENO \in Terminals
  /\ Sizes # {} /\ Sizes \subseteq Nat \X Nat
  /\ Threads # {}
  /\ FirstActions \subseteq {"dfl", "ign"}
  /\ OtherColorThread \in BOOLEAN

(* Terminal modes: whose settings they are (-1: a zeroed termios) and      *)
(* whether ICANON, ECHO and IEXTEN were cleared.                           *)
Modes == [of : Terminals \cup {-1}, raw : BOOLEAN]
Own(fd) == [of |-> fd, raw |-> FALSE]
Zeroed == [of |-> -1, raw |-> FALSE]

Actions == {"dfl", "ign", "winch"}   \* dispositions of SIGWINCH

VARIABLES
  pc,       \* of the program: before __create, in it, running, over
  flags,    \* this_tty->flags
  fd_in,    \* this_tty->fd_in
  oldterm,  \* this_tty->oldterm
  saved,    \* this_tty->saved_action
  wsize,    \* this_tty->wsize
  winsz,    \* this_tty->winsz
  color,    \* a color function between its load and its store
  mode,     \* the kernel's modes of each terminal
  win,      \* the real size of stdin's window
  action,   \* the disposition of SIGWINCH
  first,    \* the disposition the program was started with
  pending,  \* a SIGWINCH is pending
  h,        \* the handler on each thread
  reader,   \* a reader that polls tty_did_wchange
  failed,   \* a tcgetattr or tcsetattr has failed
  ttys      \* what isatty accepts: all terminals, or all but a redirected stdin

vars == <<pc, flags, fd_in, oldterm, saved, wsize, winsz, color, mode, win,
          action, first, pending, h, reader, failed, ttys>>
sizeVars == <<wsize, winsz, h, reader>>   \* what handler and reader share
fixedVars == <<first, ttys>>

Flags == [inited : BOOLEAN, is_tty : BOOLEAN, color : BOOLEAN]

TypeOK ==
  /\ pc \in {"start", "size", "action", "run", "over"}
  /\ flags \in Flags
  /\ fd_in \in Fds
  /\ oldterm \in Modes
  /\ saved \in Actions
  /\ wsize \in Numbers \X Numbers
  /\ winsz \in {0, 1}
  /\ color \in [pc : {"idle", "store"}, flags : Flags]
  /\ mode \in [Terminals -> Modes]
  /\ win \in Sizes
  /\ action \in Actions
  /\ first \in FirstActions
  /\ pending \in BOOLEAN
  /\ h \in [Threads -> [pc : {"idle", "rows", "cols", "set"}, w : Numbers \X Numbers]]
  /\ reader \in [pc : {"first", "idle", "rows", "cols"}, copy : Numbers \X Numbers]
  /\ failed \in BOOLEAN
  /\ ttys \in {Terminals, Terminals \ {STDIN_FILENO}}

NoFlags == [inited |-> FALSE, is_tty |-> FALSE, color |-> FALSE]

(* The static structure is zero before the constructor runs. *)
Init ==
  /\ pc = "start"
  /\ flags = NoFlags
  /\ fd_in = STDIN_FILENO
  /\ oldterm = Zeroed
  /\ saved = "dfl"
  /\ wsize = <<0, 0>>
  /\ winsz = 0
  /\ color = [pc |-> "idle", flags |-> NoFlags]
  /\ mode = [t \in Terminals |-> Own(t)]
  /\ win \in Sizes
  /\ first \in FirstActions
  /\ action = first
  /\ pending = FALSE
  /\ h = [t \in Threads |-> [pc |-> "idle", w |-> <<0, 0>>]]
  /\ reader = [pc |-> "first", copy |-> <<0, 0>>]
  /\ failed = FALSE
  /\ ttys \in {Terminals, Terminals \ {STDIN_FILENO}}

(***************************************************************************)
(* Modes and flags.  tcsetattr may fail: ok says whether it does not.      *)
(***************************************************************************)

(* tty_raw_input() on fd, from the flags f and the modes m. *)
tty_raw_input(fd, f, m, ok) ==
  /\ flags' = IF ok THEN [f EXCEPT !.is_tty = TRUE] ELSE f
  /\ mode' = IF ok THEN [m EXCEPT ![fd] = [oldterm EXCEPT !.raw = TRUE]] ELSE m

(* tty_reset(): without the flag there is nothing to do; a failure, sure   *)
(* on a socket, leaves the flag set.                                       *)
ResetDone(ok) == flags.is_tty /\ ok /\ fd_in \in ttys
ResetFails(ok) == flags.is_tty /\ ~ResetDone(ok)
FlagsReset(ok) == IF ResetDone(ok) THEN [flags EXCEPT !.is_tty = FALSE] ELSE flags
ModeReset(ok) == IF ResetDone(ok) THEN [mode EXCEPT ![fd_in] = oldterm] ELSE mode

(* sigaction(SIGWINCH, a): the kernel drops a pending signal that the new  *)
(* disposition ignores.                                                    *)
sigaction(a) ==
  /\ action' = a
  /\ pending' = (pending /\ a = "winch")

(* tty_destroy(). *)
DestroyKeepsMode(ok) ==   \* slip: the flag is cleared, the modes are not put back
  /\ flags' = FlagsReset(ok)
  /\ mode' = mode
  /\ failed' = (failed \/ ResetFails(ok))
  /\ sigaction(saved)

tty_destroy(ok) ==
  /\ flags' = FlagsReset(ok)
  /\ mode' = ModeReset(ok)
  /\ failed' = (failed \/ ResetFails(ok))
  /\ sigaction(saved)

(***************************************************************************)
(* The constructor, in three steps; every failure ends in tty_destroy.     *)
(***************************************************************************)

CreateFails(ok) ==
  /\ pc' = "run"
  /\ tty_destroy(ok)
  /\ UNCHANGED <<fd_in, oldterm, saved, color, win, sizeVars, fixedVars>>

(* memset, the defaults, isatty and tcgetattr. *)
Create(ok) ==
  /\ pc = "start"
  /\ flags' = [inited |-> TRUE, is_tty |-> FALSE, color |-> TRUE]
  /\ IF STDIN_FILENO \notin ttys
     THEN pc' = "run" /\ UNCHANGED <<oldterm, action, pending, failed>>
     ELSE IF ok
          THEN /\ pc' = "size"
               /\ oldterm' = mode[STDIN_FILENO]
               /\ UNCHANGED <<action, pending, failed>>
          ELSE pc' = "run" /\ failed' = TRUE /\ sigaction(saved) /\ UNCHANGED oldterm
  /\ UNCHANGED <<fd_in, saved, color, mode, win, sizeVars, fixedVars>>

(* ioctl(TIOCGWINSZ). *)
CreateSize ==
  /\ pc = "size"
  /\ pc' = "action"
  /\ wsize' = win
  /\ UNCHANGED <<flags, fd_in, oldterm, saved, winsz, color, mode, win, action,
                 pending, h, reader, failed, fixedVars>>

CreateSizeFails == pc = "size" /\ \E ok \in BOOLEAN : CreateFails(ok)

(* sigaction, then tty_raw_input. *)
CreateAction(ok) ==
  /\ pc = "action"
  /\ pc' = "run"
  /\ saved' = action
  /\ sigaction("winch")
  /\ tty_raw_input(STDIN_FILENO, flags, mode, ok)
  /\ failed' = (failed \/ ~ok)
  /\ UNCHANGED <<fd_in, oldterm, color, win, sizeVars, fixedVars>>

CreateActionFails == pc = "action" /\ \E ok \in BOOLEAN : CreateFails(ok)

(***************************************************************************)
(* The program.                                                            *)
(***************************************************************************)

(* The program's own thread is not inside a color function. *)
Free == OtherColorThread \/ color.pc = "idle"

(* tty_setup(fd, _): stdin for -1. *)
tty_setup(fd, ok, okRaw) ==
  /\ pc = "run" /\ Free
  /\ fd_in' = fd
  /\ IF fd \in ttys
     THEN /\ tty_raw_input(fd, FlagsReset(ok), ModeReset(ok), okRaw)
          /\ failed' = (failed \/ ResetFails(ok) \/ ~okRaw)
     ELSE /\ flags' = FlagsReset(ok)
          /\ mode' = ModeReset(ok)
          /\ failed' = (failed \/ ResetFails(ok))
  /\ UNCHANGED <<pc, oldterm, saved, color, win, action, pending, sizeVars, fixedVars>>

(* The program calls tty_destroy; it may go on and call tty_setup again. *)
Destroy(ok) ==
  /\ pc = "run" /\ Free
  /\ tty_destroy(ok)
  /\ UNCHANGED <<pc, fd_in, oldterm, saved, color, win, sizeVars, fixedVars>>

(* exit: the destructor __destroy. *)
Exit(ok) ==
  /\ pc = "run" /\ Free
  /\ pc' = "over"
  /\ tty_destroy(ok)
  /\ UNCHANGED <<fd_in, oldterm, saved, color, win, sizeVars, fixedVars>>

(* tty_enable_color, tty_disable_color: flags is loaded, changed, stored. *)
ColorLoad(on) ==
  /\ pc = "run" /\ color.pc = "idle"
  /\ color' = [pc |-> "store", flags |-> [flags EXCEPT !.color = on]]
  /\ UNCHANGED <<pc, flags, fd_in, oldterm, saved, mode, win, action, pending,
                 failed, sizeVars, fixedVars>>

ColorStore ==
  /\ pc = "run" /\ color.pc = "store"
  /\ flags' = color.flags
  /\ color' = [pc |-> "idle", flags |-> NoFlags]
  /\ UNCHANGED <<pc, fd_in, oldterm, saved, mode, win, action, pending, failed,
                 sizeVars, fixedVars>>

(***************************************************************************)
(* The window: the user, the handler and the reader.                       *)
(***************************************************************************)

notWindow == <<pc, flags, fd_in, oldterm, saved, color, mode, action, failed, fixedVars>>

Resize(s) ==
  /\ pc # "over"
  /\ s # win
  /\ win' = s
  /\ pending' = (pending \/ action = "winch")
  /\ UNCHANGED <<notWindow, sizeVars>>

(* handle_winch enters and asks for fd_in's size.  The ioctl's result is   *)
(* not tested: for a socket w keeps what the stack held, and the size of   *)
(* another terminal can be anything.                                       *)
Asked == IF fd_in = STDIN_FILENO /\ fd_in \in ttys THEN {win} ELSE Sizes

WrongSignal(t) ==   \* slip: the test of sig is inverted and nothing is done
  /\ pc # "over" /\ pending /\ h[t].pc = "idle"
  /\ pending' = FALSE
  /\ UNCHANGED <<notWindow, win, sizeVars>>

handle_winch(t) ==
  /\ pc # "over" /\ pending /\ h[t].pc = "idle"
  /\ pending' = FALSE
  /\ \E w \in Asked : h' = [h EXCEPT ![t] = [pc |-> "rows", w |-> w]]
  /\ UNCHANGED <<notWindow, win, wsize, winsz, reader>>

WinchRows(t) ==
  /\ pc # "over" /\ h[t].pc = "rows"
  /\ wsize' = [wsize EXCEPT ![1] = h[t].w[1]]
  /\ h' = [h EXCEPT ![t].pc = "cols"]
  /\ UNCHANGED <<notWindow, win, pending, winsz, reader>>

WinchCols(t) ==
  /\ pc # "over" /\ h[t].pc = "cols"
  /\ wsize' = [wsize EXCEPT ![2] = h[t].w[2]]
  /\ h' = [h EXCEPT ![t].pc = "set"]
  /\ UNCHANGED <<notWindow, win, pending, winsz, reader>>

tty_set_wchanged(t) ==
  /\ pc # "over" /\ h[t].pc = "set"
  /\ winsz' = 1
  /\ h' = [h EXCEPT ![t] = [pc |-> "idle", w |-> <<0, 0>>]]
  /\ UNCHANGED <<notWindow, win, pending, wsize, reader>>

ClearAfterRead ==   \* slip: the flag is cleared once the size has been read
  /\ pc = "run" /\ reader.pc = "cols"
  /\ reader' = [pc |-> "idle", copy |-> <<reader.copy[1], wsize[2]>>]
  /\ winsz' = 0
  /\ UNCHANGED <<notWindow, win, pending, wsize, h>>

(* The reader: the exchange of tty_did_wchange, then both halves.  Its     *)
(* first look at the size is unconditional.                                *)
tty_did_wchange ==
  /\ pc = "run" /\ reader.pc = "idle" /\ winsz = 1
  /\ winsz' = 0
  /\ reader' = [reader EXCEPT !.pc = "rows"]
  /\ UNCHANGED <<notWindow, win, pending, wsize, h>>

tty_num_rows ==
  /\ pc = "run" /\ reader.pc \in {"first", "rows"}
  /\ reader' = [pc |-> "cols", copy |-> <<wsize[1], reader.copy[2]>>]
  /\ UNCHANGED <<notWindow, win, pending, wsize, winsz, h>>

tty_num_columns ==
  /\ pc = "run" /\ reader.pc = "cols"
  /\ reader' = [pc |-> "idle", copy |-> <<reader.copy[1], wsize[2]>>]
  /\ UNCHANGED <<notWindow, win, pending, wsize, winsz, h>>

Handler(t) == handle_winch(t) \/ WinchRows(t) \/ WinchCols(t) \/ tty_set_wchanged(t)
Reader == tty_did_wchange \/ tty_num_rows \/ tty_num_columns

Next ==
  \/ \E ok \in BOOLEAN : Create(ok) \/ CreateAction(ok) \/ Destroy(ok) \/ Exit(ok)
  \/ CreateSize \/ CreateSizeFails \/ CreateActionFails
  \/ \E fd \in Fds, ok \in BOOLEAN, okRaw \in BOOLEAN : tty_setup(fd, ok, okRaw)
  \/ \E on \in BOOLEAN : ColorLoad(on)
  \/ ColorStore
  \/ \E s \in Sizes : Resize(s)
  \/ \E t \in Threads : Handler(t)
  \/ Reader

(* The kernel delivers a pending signal, a handler that has started        *)
(* finishes, and the reader keeps polling.                                 *)
Fairness ==
  /\ \A t \in Threads : WF_vars(Handler(t))
  /\ WF_vars(Reader)

Spec == Init /\ [][Next]_vars /\ Fairness

(***************************************************************************)
(* The properties.                                                         *)
(***************************************************************************)

(* Unless a tcgetattr or tcsetattr has failed, stdin has the modes it was  *)
(* started with whenever TTY_IS_A_TTY is off: after tty_destroy, after     *)
(* exit, and while the input is another descriptor that is no terminal.    *)
StdinRestored ==
  ~failed /\ ~flags.is_tty => mode[STDIN_FILENO] = Own(STDIN_FILENO)

(* A reader that has finished looking, with no handler running, and whose  *)
(* copy differs from this_tty->wsize will be told by tty_did_wchange, even *)
(* if handler and reader met half way and the copy is torn.                *)
ResizeNotMissed ==
  (/\ pc = "run" /\ reader.pc = "idle"
   /\ \A t \in Threads : h[t].pc = "idle"
   /\ reader.copy # wsize)
     => winsz = 1

(* A resize signalled while handle_winch is installed reaches a polling    *)
(* reader, unless the window changes again, the input moves to another     *)
(* descriptor, the handler is taken away or the program ends.              *)
ResizeReaches ==
  \A s \in Sizes :
    (pending /\ fd_in = STDIN_FILENO /\ win = s)
      ~> \/ reader.copy = s
         \/ win # s \/ fd_in # STDIN_FILENO \/ action # "winch" \/ pc = "over"

(* fgen_tty.c says "Restore the old sigaction() value": once the program   *)
(* has called tty_destroy or ended, SIGWINCH has the disposition it had    *)
(* when the program was started.                                           *)
ActionRestored == pc = "over" => action = first

(* fgen_tty.h: "Return the number of rows in the screen".  With handler    *)
(* installed and idle and no signal pending, the size kept is the window's.*)
SizeIsWindow ==
  (/\ pc = "run" /\ action = "winch" /\ ~pending
   /\ fd_in = STDIN_FILENO
   /\ \A t \in Threads : h[t].pc = "idle")
     => wsize = win
=============================================================================
