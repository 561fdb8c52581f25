------------------------------ MODULE TtyProofs ------------------------------
(***************************************************************************)
(* Proofs about the terminal, for any descriptors, window sizes and number *)
(* of threads that take SIGWINCH.  Two inductive invariants, one for each  *)
(* of the things that share this_tty:                                      *)
(*   - ModesKept: as long as no call has failed, stdin's modes are its own *)
(*     or the flag is set and stdin is the input, and oldterm is stdin's;  *)
(*     it needs the flag word to be changed by one thread only;            *)
(*   - SizeSeen: a half of the size that the reader has copied and that    *)
(*     has changed since is followed by winsz, or by a handler that has    *)
(*     still to set it; before the program runs no handler does.           *)
(***************************************************************************)
EXTENDS Tty, TLAPS

Starting == pc \in {"start", "size", "action"}

ModesKept ==
  ~failed =>
    /\ mode[STDIN_FILENO] = Own(STDIN_FILENO) \/ (flags.is_tty /\ fd_in = STDIN_FILENO)
    /\ Starting => fd_in = STDIN_FILENO /\ ~flags.is_tty /\ color.pc = "idle"
    /\ pc # "start" /\ STDIN_FILENO \in ttys => oldterm = Own(STDIN_FILENO)
    /\ color.pc = "store" => color.flags.is_tty = flags.is_tty

(* A handler that has written a half of the size has still to set winsz.   *)
HandlerAtWork == \E t \in Threads : h[t].pc \in {"cols", "set"}

SizeSeen ==
  /\ Starting => action # "winch" /\ ~pending /\ reader.pc = "first"
                 /\ \A t \in Threads : h[t].pc = "idle"
  /\ reader.pc = "cols" /\ reader.copy[1] # wsize[1] => winsz = 1 \/ HandlerAtWork
  /\ reader.pc = "idle" /\ reader.copy # wsize => winsz = 1 \/ HandlerAtWork
  /\ pc \in {"start", "size"} => saved = "dfl"

-----------------------------------------------------------------------------
(* What a step of the program that is not about the window leaves alone,   *)
(* and what it may set.                                                    *)
LEMMA FlagsTyped ==
  ASSUME TypeOK, NEW ok \in BOOLEAN
  PROVE  FlagsReset(ok) \in Flags /\ ModeReset(ok) \in [Terminals -> Modes]
BY TtyAssumption DEF TypeOK, FlagsReset, ModeReset, ResetDone, Flags, Modes

(* tty_raw_input leaves flags and modes of the right types. *)
LEMMA RawTyped ==
  ASSUME TypeOK, NEW fd \in Terminals, NEW f \in Flags, NEW m \in [Terminals -> Modes],
         NEW ok \in BOOLEAN, tty_raw_input(fd, f, m, ok)
  PROVE  flags' \in Flags /\ mode' \in [Terminals -> Modes]
<1>1. [f EXCEPT !.is_tty = TRUE] \in Flags
  BY DEF Flags
<1>2. [oldterm EXCEPT !.raw = TRUE] \in Modes
  BY DEF TypeOK, Modes
<1> QED BY <1>1, <1>2 DEF tty_raw_input

(* So does tty_destroy. *)
LEMMA DestroyTyped ==
  ASSUME TypeOK, NEW ok \in BOOLEAN, tty_destroy(ok)
  PROVE  /\ flags' \in Flags /\ mode' \in [Terminals -> Modes] /\ failed' \in BOOLEAN
         /\ action' \in Actions /\ pending' \in BOOLEAN
BY FlagsTyped DEF tty_destroy, sigaction, ResetFails, ResetDone, TypeOK, Flags

(* The sizes of windows are pairs of numbers. *)
LEMMA SizesArePairs == \A s \in Sizes : s \in Numbers \X Numbers
BY TtyAssumption DEF Numbers

(* Types before the constructor. *)
LEMMA InitTyped == Init => TypeOK
<1> SUFFICES ASSUME Init PROVE TypeOK
  OBVIOUS
<1>1. <<0, 0>> \in Numbers \X Numbers
  BY DEF Numbers
<1>2. mode \in [Terminals -> Modes] /\ oldterm \in Modes
  BY DEF Init, Own, Zeroed, Modes
<1>3. flags \in Flags /\ color \in [pc : {"idle", "store"}, flags : Flags]
  BY DEF Init, NoFlags, Flags
<1>4. action \in Actions /\ saved \in Actions
  BY TtyAssumption DEF Init, Actions
<1>5. fd_in \in Fds
  BY TtyAssumption DEF Init, Fds
<1> QED BY <1>1, <1>2, <1>3, <1>4, <1>5 DEF Init, TypeOK

(* Types after each step. *)
LEMMA NextTyped == TypeOK /\ [Next]_vars => TypeOK'
<1> SUFFICES ASSUME TypeOK, [Next]_vars PROVE TypeOK'
  OBVIOUS
<1>1. STDIN_FILENO \in Terminals /\ STDIN_FILENO \in Fds /\ ttys \subseteq Terminals
  BY TtyAssumption DEF Fds, TypeOK
<1>2. CASE UNCHANGED vars
  BY <1>2 DEF vars, TypeOK, Flags
<1>3. ASSUME NEW ok \in BOOLEAN, Create(ok) PROVE TypeOK'
  <2>1. flags' \in Flags
    BY <1>3 DEF Create, Flags
  <2>2. oldterm' \in Modes /\ pc' \in {"size", "run"}
    BY <1>1, <1>3 DEF Create, TypeOK
  <2>3. failed' \in BOOLEAN
    <3>1. failed' = failed \/ failed' = TRUE
      BY <1>3, Zenon DEF Create
    <3> QED BY <3>1, Zenon DEF TypeOK
  <2>4. action' \in Actions /\ pending' \in BOOLEAN
    BY <1>3 DEF Create, TypeOK, sigaction
  <2> QED BY <1>3, <2>1, <2>2, <2>3, <2>4 DEF Create, TypeOK, sizeVars, fixedVars
<1>4. CASE CreateSize
  BY <1>4, SizesArePairs DEF CreateSize, TypeOK, fixedVars
<1>5. ASSUME NEW ok \in BOOLEAN, CreateFails(ok) PROVE TypeOK'
  BY <1>5, DestroyTyped DEF CreateFails, TypeOK, sizeVars, fixedVars
<1>6. ASSUME NEW ok \in BOOLEAN, CreateAction(ok) PROVE TypeOK'
  <2>1. flags' \in Flags /\ mode' \in [Terminals -> Modes]
    BY <1>1, <1>6, RawTyped DEF CreateAction, TypeOK
  <2>2. action' \in Actions /\ pending' \in BOOLEAN /\ saved' \in Actions /\ failed' \in BOOLEAN
    BY <1>6 DEF CreateAction, sigaction, TypeOK, Actions
  <2> QED BY <1>6, <2>1, <2>2 DEF CreateAction, TypeOK, sizeVars, fixedVars
<1>7. ASSUME NEW ok \in BOOLEAN, Destroy(ok) \/ Exit(ok) PROVE TypeOK'
  BY <1>7, DestroyTyped DEF Destroy, Exit, TypeOK, sizeVars, fixedVars
<1>8. ASSUME NEW fd \in Fds, NEW ok \in BOOLEAN, NEW okRaw \in BOOLEAN,
             tty_setup(fd, ok, okRaw)
      PROVE  TypeOK'
  <2>1. failed' \in BOOLEAN
    BY <1>8 DEF tty_setup, TypeOK, ResetFails, ResetDone, Flags
  <2>2. flags' \in Flags /\ mode' \in [Terminals -> Modes]
    BY <1>1, <1>8, FlagsTyped, RawTyped DEF tty_setup
  <2> QED BY <1>8, <2>1, <2>2 DEF tty_setup, TypeOK, sizeVars, fixedVars
<1>9. ASSUME NEW on \in BOOLEAN, ColorLoad(on) PROVE TypeOK'
  <2>1. [flags EXCEPT !.color = on] \in Flags
    BY DEF TypeOK, Flags
  <2> QED BY <1>9, <2>1 DEF ColorLoad, TypeOK, sizeVars, fixedVars
<1>10. CASE ColorStore
  <2>1. NoFlags \in Flags /\ color.flags \in Flags
    BY DEF NoFlags, Flags, TypeOK
  <2> QED BY <1>10, <2>1 DEF ColorStore, TypeOK, sizeVars, fixedVars
<1>11. ASSUME NEW s \in Sizes, Resize(s) PROVE TypeOK'
  BY <1>11 DEF Resize, TypeOK, notWindow, sizeVars, fixedVars
<1>12. ASSUME NEW t \in Threads, Handler(t) PROVE TypeOK'
  <2>1. <<0, 0>> \in Numbers \X Numbers
    BY DEF Numbers
  <2>2. \A w \in Asked : w \in Numbers \X Numbers
    BY SizesArePairs DEF Asked, TypeOK
  <2>3. h[t].w \in Numbers \X Numbers /\ h[t] \in [pc : {"idle", "rows", "cols", "set"},
                                                   w : Numbers \X Numbers]
    BY DEF TypeOK
  <2>4. CASE handle_winch(t)
    <3>1. PICK w \in Asked : h' = [h EXCEPT ![t] = [pc |-> "rows", w |-> w]]
      BY <2>4 DEF handle_winch
    <3>2. h' \in [Threads -> [pc : {"idle", "rows", "cols", "set"}, w : Numbers \X Numbers]]
      BY <2>2, <3>1 DEF TypeOK
    <3> QED BY <2>4, <3>2 DEF handle_winch, TypeOK, notWindow, fixedVars
  <2>5. CASE WinchRows(t)
    BY <2>3, <2>5 DEF WinchRows, TypeOK, notWindow, fixedVars
  <2>6. CASE WinchCols(t)
    BY <2>3, <2>6 DEF WinchCols, TypeOK, notWindow, fixedVars
  <2>7. CASE tty_set_wchanged(t)
    BY <2>1, <2>7 DEF tty_set_wchanged, TypeOK, notWindow, fixedVars
  <2> QED BY <1>12, <2>4, <2>5, <2>6, <2>7 DEF Handler
<1>13. CASE Reader
  <2>1. reader.copy \in Numbers \X Numbers /\ wsize[1] \in Numbers /\ wsize[2] \in Numbers
    BY DEF TypeOK
  <2>2. CASE tty_did_wchange
    BY <2>2 DEF tty_did_wchange, TypeOK, notWindow, fixedVars
  <2>3. CASE tty_num_rows
    BY <2>1, <2>3 DEF tty_num_rows, TypeOK, notWindow, fixedVars
  <2>4. CASE tty_num_columns
    BY <2>1, <2>4 DEF tty_num_columns, TypeOK, notWindow, fixedVars
  <2> QED BY <1>13, <2>2, <2>3, <2>4 DEF Reader
<1> QED BY <1>2, <1>3, <1>4, <1>5, <1>6, <1>7, <1>8, <1>9, <1>10, <1>11, <1>12, <1>13
        DEF Next, CreateSizeFails, CreateActionFails

(* The variables of the terminal keep their types. *)
THEOREM TypesHold == Spec => []TypeOK
BY InitTyped, NextTyped, PTL DEF Spec

-----------------------------------------------------------------------------
(* The size.  A step that keeps what the reader and the handlers share     *)
(* keeps SizeSeen, unless it installs handle_winch or starts over.         *)
LEMMA OtherStep ==
  ASSUME TypeOK, SizeSeen, UNCHANGED sizeVars,
         Starting' => Starting /\ action' # "winch" /\ ~pending',
         pc' \in {"start", "size"} => saved' = "dfl"
  PROVE  SizeSeen'
BY DEF SizeSeen, sizeVars, HandlerAtWork, Starting

(* No size has been copied at first. *)
LEMMA InitSeen == Init => SizeSeen
BY TtyAssumption DEF Init, SizeSeen, Starting, HandlerAtWork

(* A half of the size changes only in a handler, which sets winsz          *)
(* afterwards.                                                             *)
LEMMA NextSeen == TypeOK /\ SizeSeen /\ [Next]_vars => SizeSeen'
<1> SUFFICES ASSUME TypeOK, SizeSeen, [Next]_vars PROVE SizeSeen'
  OBVIOUS
<1>1. CASE UNCHANGED vars
  BY <1>1 DEF vars, SizeSeen, HandlerAtWork, Starting
<1>2. ASSUME NEW ok \in BOOLEAN, Create(ok) PROVE SizeSeen'
  BY <1>2, OtherStep DEF Create, SizeSeen, Starting, sigaction
<1>3. CASE CreateSize
  BY <1>3 DEF CreateSize, SizeSeen, Starting
<1>4. ASSUME NEW ok \in BOOLEAN, CreateFails(ok) PROVE SizeSeen'
  BY <1>4, OtherStep DEF CreateFails, Starting
<1>5. ASSUME NEW ok \in BOOLEAN, CreateAction(ok) \/ Destroy(ok) \/ Exit(ok) PROVE SizeSeen'
  BY <1>5, OtherStep DEF CreateAction, Destroy, Exit, Starting
<1>6. ASSUME NEW fd \in Fds, NEW ok \in BOOLEAN, NEW okRaw \in BOOLEAN,
             tty_setup(fd, ok, okRaw)
      PROVE  SizeSeen'
  BY <1>6, OtherStep DEF tty_setup, Starting
<1>7. ASSUME NEW on \in BOOLEAN, ColorLoad(on) \/ ColorStore PROVE SizeSeen'
  BY <1>7, OtherStep DEF ColorLoad, ColorStore, Starting
<1>8. ASSUME NEW s \in Sizes, Resize(s) PROVE SizeSeen'
  BY <1>8, OtherStep DEF Resize, SizeSeen, Starting, notWindow
<1>9. ASSUME NEW t \in Threads, Handler(t) PROVE SizeSeen'
  <2>1. pc' = pc /\ action' = action /\ saved' = saved /\ reader' = reader /\ ~Starting
    BY <1>9 DEF Handler, handle_winch, WinchRows, WinchCols, tty_set_wchanged, notWindow,
                SizeSeen
  <2>2. CASE handle_winch(t)
    <3>1. PICK w \in Asked : h' = [h EXCEPT ![t] = [pc |-> "rows", w |-> w]]
      BY <2>2 DEF handle_winch
    <3>2. HandlerAtWork => HandlerAtWork'
      BY <2>2, <3>1 DEF HandlerAtWork, handle_winch, TypeOK
    <3> QED BY <2>1, <2>2, <3>2 DEF handle_winch, SizeSeen, Starting
  <2>3. CASE WinchRows(t) \/ WinchCols(t)
    <3>1. HandlerAtWork'
      BY <2>3 DEF HandlerAtWork, WinchRows, WinchCols, TypeOK
    <3> QED BY <2>1, <3>1 DEF SizeSeen, Starting
  <2>4. CASE tty_set_wchanged(t)
    BY <2>1, <2>4 DEF tty_set_wchanged, SizeSeen, Starting
  <2> QED BY <1>9, <2>2, <2>3, <2>4 DEF Handler
<1>10. CASE Reader
  <2>1. pc' = pc /\ pc = "run" /\ wsize' = wsize /\ h' = h
    BY <1>10 DEF Reader, tty_did_wchange, tty_num_rows, tty_num_columns, notWindow
  <2>2. HandlerAtWork' = HandlerAtWork
    BY <2>1 DEF HandlerAtWork
  <2>3. CASE tty_did_wchange
    BY <2>1, <2>3 DEF tty_did_wchange, SizeSeen, Starting, TypeOK
  <2>4. CASE tty_num_rows
    BY <2>1, <2>4 DEF tty_num_rows, SizeSeen, Starting, TypeOK
  <2>5. CASE tty_num_columns
    <3>1. reader'.copy = <<reader.copy[1], wsize[2]>> /\ reader'.pc = "idle" /\ winsz' = winsz
          /\ reader.pc = "cols"
      BY <2>5 DEF tty_num_columns
    <3>2. reader'.copy # wsize => reader.copy[1] # wsize[1]
      BY <3>1 DEF TypeOK
    <3> QED BY <2>1, <2>2, <3>1, <3>2 DEF SizeSeen, Starting
  <2> QED BY <1>10, <2>3, <2>4, <2>5 DEF Reader
<1> QED BY <1>1, <1>2, <1>3, <1>4, <1>5, <1>6, <1>7, <1>8, <1>9, <1>10
        DEF Next, CreateSizeFails, CreateActionFails

(* However handler and reader meet, a reader whose copy is not the size    *)
(* this_tty keeps will be told by tty_did_wchange.                         *)
THEOREM NoResizeMissed == Spec => []ResizeNotMissed
<1>1. SizeSeen => ResizeNotMissed
  BY DEF SizeSeen, ResizeNotMissed, HandlerAtWork
<1>2. Init => TypeOK /\ SizeSeen
  BY InitTyped, InitSeen
<1>3. TypeOK /\ SizeSeen /\ [Next]_vars => (TypeOK /\ SizeSeen)'
  BY NextTyped, NextSeen
<1> QED BY <1>1, <1>2, <1>3, PTL DEF Spec

-----------------------------------------------------------------------------
(* The modes. *)
LEMMA InitKept == Init => ModesKept
BY TtyAssumption DEF Init, NoFlags, ModesKept, Starting

(* tty_reset, when it does not fail, leaves the flag off and stdin's modes *)
(* its own.                                                                *)
LEMMA ResetRestores ==
  ASSUME TypeOK, ModesKept, ~failed, pc # "start", NEW ok \in BOOLEAN, ~ResetFails(ok)
  PROVE  /\ ~FlagsReset(ok).is_tty
         /\ ModeReset(ok)[STDIN_FILENO] = Own(STDIN_FILENO)
<1>1. STDIN_FILENO \in Terminals
  BY TtyAssumption
<1> QED BY <1>1 DEF ResetFails, ResetDone, FlagsReset, ModeReset, ModesKept, TypeOK, Flags

(* tty_destroy calls it. *)
LEMMA DestroyRestores ==
  ASSUME TypeOK, ModesKept, pc # "start", NEW ok \in BOOLEAN, tty_destroy(ok), ~failed'
  PROVE  ~failed /\ ~flags'.is_tty /\ mode'[STDIN_FILENO] = Own(STDIN_FILENO)
BY ResetRestores DEF tty_destroy

(* Each step that changes modes, input or flags, with the color functions  *)
(* on one thread.                                                          *)
LEMMA NextKept ==
  ASSUME ~OtherColorThread, TypeOK, ModesKept, [Next]_vars PROVE ModesKept'
<1> SUFFICES ASSUME ~failed' PROVE ModesKept'
  BY DEF ModesKept
<1>0. STDIN_FILENO \in Terminals
  BY TtyAssumption
<1>1. CASE UNCHANGED vars
  BY <1>1 DEF vars, ModesKept, Starting
<1>2. ASSUME NEW ok \in BOOLEAN, Create(ok) PROVE ModesKept'
  BY <1>2 DEF Create, ModesKept, Starting, fixedVars, TypeOK
<1>3. CASE CreateSize
  BY <1>3 DEF CreateSize, ModesKept, Starting, fixedVars
<1>4. ASSUME NEW ok \in BOOLEAN, pc \in {"size", "action"}, CreateFails(ok) PROVE ModesKept'
  BY <1>4, DestroyRestores DEF CreateFails, ModesKept, Starting, fixedVars
<1>5. ASSUME NEW ok \in BOOLEAN, CreateAction(ok) PROVE ModesKept'
  BY <1>0, <1>5 DEF CreateAction, tty_raw_input, ModesKept, Starting, fixedVars, TypeOK, Flags
<1>6. ASSUME NEW ok \in BOOLEAN, Destroy(ok) \/ Exit(ok) PROVE ModesKept'
  BY <1>6, DestroyRestores DEF Destroy, Exit, Free, ModesKept, Starting, fixedVars
<1>7. ASSUME NEW fd \in Fds, NEW ok \in BOOLEAN, NEW okRaw \in BOOLEAN,
             tty_setup(fd, ok, okRaw)
      PROVE  ModesKept'
  <2>1. /\ pc = "run" /\ pc' = pc /\ color.pc = "idle" /\ color' = color /\ ttys' = ttys
        /\ oldterm' = oldterm /\ fd_in' = fd /\ ~failed /\ ~ResetFails(ok)
    BY <1>7 DEF tty_setup, Free, fixedVars
  <2>2. ~FlagsReset(ok).is_tty /\ ModeReset(ok)[STDIN_FILENO] = Own(STDIN_FILENO)
    BY <2>1, ResetRestores
  <2>3. mode'[STDIN_FILENO] = Own(STDIN_FILENO) \/ (flags'.is_tty /\ fd = STDIN_FILENO)
    <3>1. FlagsReset(ok) \in Flags /\ ModeReset(ok) \in [Terminals -> Modes]
      BY FlagsTyped
    <3> QED BY <1>0, <1>7, <2>2, <3>1 DEF tty_setup, tty_raw_input, Flags, TypeOK
  <2> QED BY <2>1, <2>3 DEF ModesKept, Starting
<1>8. ASSUME NEW on \in BOOLEAN, ColorLoad(on) PROVE ModesKept'
  BY <1>8 DEF ColorLoad, ModesKept, Starting, fixedVars, TypeOK, Flags
<1>9. CASE ColorStore
  BY <1>9 DEF ColorStore, ModesKept, Starting, fixedVars
<1>10. ASSUME NEW s \in Sizes, Resize(s) PROVE ModesKept'
  BY <1>10 DEF Resize, notWindow, ModesKept, Starting, fixedVars
<1>11. ASSUME NEW t \in Threads, Handler(t) PROVE ModesKept'
  BY <1>11 DEF Handler, handle_winch, WinchRows, WinchCols, tty_set_wchanged, notWindow,
               ModesKept, Starting, fixedVars
<1>12. CASE Reader
  BY <1>12 DEF Reader, tty_did_wchange, tty_num_rows, tty_num_columns, notWindow,
               ModesKept, Starting, fixedVars
<1> QED BY <1>1, <1>2, <1>3, <1>4, <1>5, <1>6, <1>7, <1>8, <1>9, <1>10, <1>11, <1>12
        DEF Next, CreateSizeFails, CreateActionFails

(* When one thread only changes the flags, stdin has its own modes again   *)
(* whenever TTY_IS_A_TTY is off and no call has failed, in whatever order  *)
(* the input was moved and the terminal destroyed.                         *)
THEOREM StdinKept ==
  ASSUME ~OtherColorThread PROVE Spec => []StdinRestored
<1>1. ModesKept => StdinRestored
  BY DEF ModesKept, StdinRestored
<1>2. Init => TypeOK /\ ModesKept
  BY InitTyped, InitKept
<1>3. TypeOK /\ ModesKept /\ [Next]_vars => (TypeOK /\ ModesKept)'
  BY NextTyped, NextKept
<1> QED BY <1>1, <1>2, <1>3, PTL DEF Spec
=============================================================================
