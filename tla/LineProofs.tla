---------------------------- MODULE LineProofs ----------------------------
(***************************************************************************)
(* The order of what the session sends: proofs that relate the shell, the  *)
(* terminal and what is under way between them, for every capacity of the  *)
(* channels and every interleaving of the tasks.                           *)
(***************************************************************************)
EXTENDS SessionProofs, Recursion

-----------------------------------------------------------------------------
(* Erases before line feeds.  An Enter that closes the popup is counted    *)
(* from the moment its erase is sent until its line feed is written: in    *)
(* the hand of the stdin task, ahead of the shell, in its output, in a     *)
(* chunk of it, and in the hand of the PTY processor.                      *)

ClearedAhead ==
  [bytes \in ToShell |-> IF bytes.type = "Key" /\ bytes.cleared THEN 1 ELSE 0]

ClearedNewline == [out \in Output |-> IF out.type = "Newline" /\ out.cleared THEN 1 ELSE 0]

ClearedInChunk == [chunk \in Seq(Output) |-> Total(ClearedNewline, chunk)]

InStdin == IF stdin.pc = "forward" /\ stdin.action.type = "EraseAndForward" THEN 1 ELSE 0

InPtyTask == IF ptyTask.pc = "pass" THEN Total(ClearedNewline, ptyTask.events) ELSE 0

Underway ==
  InStdin + Total(ClearedAhead, ptyWrite) + Total(ClearedNewline, tty)
    + Total(ClearedInChunk, ptyOut) + InPtyTask

\* What a write adds to the erases that are ahead of the line feeds.
Credit ==
  [write \in TerminalWrite |->
     CASE write.type = "Passthrough" -> 0 - write.cleared
       [] write.type = "ErasePopup" /\ write.cause = "enter" -> 1
       [] OTHER -> 0]

\* However far the queue is written, the erases are ahead; and once it is
\* written, they are ahead of all that is still under way.
EnterInv ==
  /\ \A n \in 0 .. Len(writeCh) :
       history.submitted <= history.cleared + Tally(Credit, writeCh)[n]
  /\ history.submitted + Underway <= history.cleared + Total(Credit, writeCh)

\* The weights are numbers.
LEMMA WeightTypes ==
  /\ ClearedAhead \in [ToShell -> Nat]
  /\ ClearedNewline \in [Output -> Nat]
  /\ ClearedInChunk \in [Seq(Output) -> Nat]
  /\ Credit \in [TerminalWrite -> Int]
<1>1. ClearedAhead \in [ToShell -> Nat]
  BY DEF ClearedAhead
<1>2. ClearedNewline \in [Output -> Nat]
  BY DEF ClearedNewline
<1>3. \A chunk \in Seq(Output) : Total(ClearedNewline, chunk) \in Nat
  BY <1>2, TotalType
<1>4. ClearedInChunk \in [Seq(Output) -> Nat]
  BY <1>3 DEF ClearedInChunk
<1>5. Credit \in [TerminalWrite -> Int]
  <2>1. ASSUME NEW write \in TerminalWrite
        PROVE  (CASE write.type = "Passthrough" -> 0 - write.cleared
                  [] write.type = "ErasePopup" /\ write.cause = "enter" -> 1
                  [] OTHER -> 0) \in Int
    BY DEF TerminalWrite
  <2>2. QED
    BY <2>1 DEF Credit
<1>6. QED
  BY <1>1, <1>2, <1>4, <1>5

LEMMA NatWeights ==
  /\ ClearedAhead \in [ToShell -> Int]
  /\ ClearedNewline \in [Output -> Int]
  /\ ClearedInChunk \in [Seq(Output) -> Int]
<1>1. \A S : [S -> Nat] \subseteq [S -> Int]
  OBVIOUS
<1>2. QED
  BY <1>1, WeightTypes

\* So is what is under way, in every place.
LEMMA UnderwayType ==
  ASSUME NEW toShell \in Seq(ToShell), NEW text \in Seq(Output), NEW chunks \in Seq(Seq(Output))
  PROVE  /\ Total(ClearedAhead, toShell) \in Nat
         /\ Total(ClearedNewline, text) \in Nat
         /\ Total(ClearedInChunk, chunks) \in Nat
BY WeightTypes, TotalType

\* A chunk is passed with as many line feeds as it is counted for.
LEMMA ClearedPassed ==
  ASSUME NEW chunk \in Seq(Output)
  PROVE  Passthrough(chunk).cleared = Total(ClearedNewline, chunk)
<1> DEFINE Seen(n) == {i \in 1 .. n : chunk[i].type = "Newline" /\ chunk[i].cleared}
           S == {n \in Nat : n <= Len(chunk) =>
                   /\ IsFiniteSet(Seen(n))
                   /\ Cardinality(Seen(n)) = Tally(ClearedNewline, chunk)[n]}
<1>1. 0 \in S
  <2>1. Seen(0) = {}
    OBVIOUS
  <2>2. QED
    BY <2>1, FS_EmptySet, NatWeights, TallyEquation
<1>2. ASSUME NEW n \in Nat, n \in S PROVE n + 1 \in S
  <2>1. SUFFICES ASSUME n + 1 <= Len(chunk)
                 PROVE  /\ IsFiniteSet(Seen(n + 1))
                        /\ Cardinality(Seen(n + 1)) = Tally(ClearedNewline, chunk)[n + 1]
    OBVIOUS
  <2>2. IsFiniteSet(Seen(n)) /\ Cardinality(Seen(n)) = Tally(ClearedNewline, chunk)[n]
    BY <1>2, <2>1
  <2>3. /\ Tally(ClearedNewline, chunk)[n + 1] =
             Tally(ClearedNewline, chunk)[n] + ClearedNewline[chunk[n + 1]]
        /\ chunk[n + 1] \in Output
    BY <2>1, NatWeights, TallyStep
  <2>4. Cardinality(Seen(n)) \in Nat
    BY <2>2, FS_CardinalityType
  <2>5. CASE chunk[n + 1].type = "Newline" /\ chunk[n + 1].cleared
    <3>1. Seen(n + 1) = Seen(n) \cup {n + 1} /\ n + 1 \notin Seen(n)
      BY <2>5
    <3>2. ClearedNewline[chunk[n + 1]] = 1
      BY <2>3, <2>5 DEF ClearedNewline
    <3> HIDE DEF Seen
    <3>3. QED
      BY <2>2, <2>3, <2>4, <3>1, <3>2, FS_AddElement
  <2>6. CASE ~(chunk[n + 1].type = "Newline" /\ chunk[n + 1].cleared)
    <3>1. Seen(n + 1) = Seen(n)
      BY <2>6
    <3>2. ClearedNewline[chunk[n + 1]] = 0
      BY <2>3, <2>6 DEF ClearedNewline
    <3> HIDE DEF Seen
    <3>3. QED
      BY <2>2, <2>3, <2>4, <3>1, <3>2
  <2>7. QED
    BY <2>5, <2>6
<1>3. Len(chunk) \in Nat
  OBVIOUS
<1>4. Len(chunk) \in S
  <2> HIDE DEF S
  <2>1. QED
    BY <1>1, <1>2, <1>3, Induction
<1>5. Seen(Len(chunk)) = {i \in Newlines(chunk) : chunk[i].cleared}
  BY DEF Newlines
<1>6. Passthrough(chunk).cleared = Cardinality(Seen(Len(chunk)))
  BY <1>5 DEF Passthrough
<1>7. Cardinality(Seen(Len(chunk))) = Tally(ClearedNewline, chunk)[Len(chunk)]
  <2> HIDE DEF Seen
  <2>1. QED
    BY <1>3, <1>4
<1>8. QED
  BY <1>6, <1>7 DEF Total

\* A task without a key to forward and without a chunk to pass has nothing under way.
LEMMA InHandTypes ==
  ASSUME TypeOK
  PROVE  InStdin \in {0, 1} /\ InPtyTask \in Nat
<1>1. ptyTask.events \in Seq(Output)
  BY DEF TypeOK
<1>2. InPtyTask \in Nat
  BY <1>1, WeightTypes, TotalType DEF InPtyTask
<1>3. QED
  BY <1>2 DEF InStdin

\* It holds initially.
LEMMA EnterInit == Init => EnterInv
<1> SUFFICES ASSUME Init PROVE EnterInv
  OBVIOUS
<1>1. Total(ClearedAhead, ptyWrite) = 0
  BY NatWeights, TotalOfEmpty DEF Init
<1>2. Total(ClearedNewline, tty) = 0
  BY NatWeights, TotalOfEmpty DEF Init
<1>3. Total(ClearedInChunk, ptyOut) = 0
  BY NatWeights, TotalOfEmpty DEF Init
<1>4. Total(Credit, writeCh) = 0
  BY WeightTypes, TotalOfEmpty DEF Init
<1>5. InStdin = 0 /\ InPtyTask = 0
  BY DEF Init, InStdin, InPtyTask, Reading, Processing
<1>6. Len(writeCh) = 0 /\ history.submitted = 0 /\ history.cleared = 0
  BY DEF Init, NoHistory
<1>7. Tally(Credit, writeCh)[0] = 0
  BY <1>4, <1>6 DEF Total
<1>8. QED
  BY <1>1, <1>2, <1>3, <1>4, <1>5, <1>6, <1>7 DEF EnterInv, Underway

\* A step that sends nothing to the terminal, and adds nothing to what is under way.
LEMMA NothingSent ==
  ASSUME IInv, EnterInv, UNCHANGED writeCh,
         history'.cleared = history.cleared, history'.submitted = history.submitted,
         Underway \in Int, Underway' \in Int, Underway' <= Underway
  PROVE  EnterInv'
<1>1. history.cleared \in Nat /\ history.submitted \in Nat /\ Total(Credit, writeCh) \in Int
  BY WeightTypes, TotalType DEF IInv, TypeOK
<1>2. QED
  BY <1>1 DEF EnterInv

\* A step that sends a write: it may take as much out of what is under way as
\* the write takes from the erases that are ahead.
LEMMA OneSent ==
  ASSUME IInv, EnterInv, NEW write \in TerminalWrite, SendWrite(write), UNCHANGED history,
         Underway \in Nat, Underway' \in Nat, Underway' <= Underway + Credit[write]
  PROVE  EnterInv'
<1>1. /\ history.cleared \in Nat /\ history.submitted \in Nat
      /\ writeCh \in Seq(TerminalWrite) /\ writeCh' = Append(writeCh, write)
  BY DEF IInv, TypeOK, SendWrite
<1>2. Total(Credit, writeCh) \in Int /\ Credit[write] \in Int
  BY <1>1, WeightTypes, TotalType
<1>3. /\ \A n \in 0 .. Len(writeCh) : Tally(Credit, writeCh')[n] = Tally(Credit, writeCh)[n]
      /\ Total(Credit, writeCh') = Total(Credit, writeCh) + Credit[write]
  BY <1>1, WeightTypes, TallyOfAppend
<1>4. Len(writeCh') = Len(writeCh) + 1 /\ Len(writeCh) \in Nat
  BY <1>1
<1>5. history.submitted + Underway' <= history.cleared + Total(Credit, writeCh')
  <2>1. history.submitted + Underway <= history.cleared + Total(Credit, writeCh)
    BY DEF EnterInv
  <2>2. Total(Credit, writeCh') = Total(Credit, writeCh) + Credit[write]
    BY <1>3
  <2> DEFINE total == Total(Credit, writeCh)
             credit == Credit[write]
  <2>3. /\ total \in Int /\ credit \in Int /\ history.cleared \in Nat
        /\ history.submitted \in Nat
        /\ history.submitted + Underway <= history.cleared + total
        /\ Total(Credit, writeCh') = total + credit /\ Underway' <= Underway + credit
    BY <1>1, <1>2, <2>1, <2>2
  <2> HIDE DEF total, credit
  <2>4. QED
    BY <2>3
<1>6. ASSUME NEW n \in 0 .. Len(writeCh')
      PROVE  history.submitted <= history.cleared + Tally(Credit, writeCh')[n]
  <2>1. CASE n \in 0 .. Len(writeCh)
    BY <1>3, <2>1 DEF EnterInv
  <2>2. CASE n = Len(writeCh')
    BY <1>1, <1>2, <1>3, <1>5, <2>2 DEF Total
  <2>3. QED
    BY <1>4, <2>1, <2>2
<1>7. QED
  BY <1>5, <1>6 DEF EnterInv

\* What is under way, as a number.
LEMMA UnderwaySum ==
  ASSUME IInv
  PROVE  /\ Total(ClearedAhead, ptyWrite) \in Nat /\ Total(ClearedNewline, tty) \in Nat
         /\ Total(ClearedInChunk, ptyOut) \in Nat
         /\ InStdin \in {0, 1} /\ InPtyTask \in Nat /\ Underway \in Nat
<1>1. /\ Total(ClearedAhead, ptyWrite) \in Nat /\ Total(ClearedNewline, tty) \in Nat
      /\ Total(ClearedInChunk, ptyOut) \in Nat
  BY UnderwayType DEF IInv, TypeOK
<1>2. InStdin \in {0, 1} /\ InPtyTask \in Nat
  BY InHandTypes DEF IInv
<1>3. QED
  BY <1>1, <1>2 DEF Underway

LEMMA EnterStdinQuiet ==
  ASSUME IInv, EnterInv,
         \/ StdinRead \/ StdinEof \/ StdinOnKey \/ StdinMeasure \/ StdinSplice
         \/ StdinTrack \/ StdinNotify \/ AbortStdin
  PROVE  EnterInv'
<1>1. UNCHANGED <<ptyTask, writeCh, ptyWrite, ptyOut, tty>>
  BY DEF StdinRead, StdinEof, StdinOnKey, StdinMeasure, StdinSplice, StdinTrack, StdinNotify,
         AbortStdin, channels
<1>2. history'.cleared = history.cleared /\ history'.submitted = history.submitted
  <2>1. history \in [expected : String, cleared : Nat, submitted : Nat]
    BY DEF IInv, TypeOK
  <2>2. QED
    BY <2>1 DEF StdinRead, StdinEof, StdinOnKey, StdinMeasure, StdinSplice, StdinTrack,
         StdinNotify, AbortStdin
<1>3. InStdin' = 0 \/ InStdin' = InStdin
  <2>1. CASE StdinOnKey
    <3> DEFINE action == OnKey(popup, stdin.key).action
    <3>1. \/ stdin' = Reading
          \/ stdin' = [stdin EXCEPT !.pc = PcFor(action), !.action = action]
      BY <2>1 DEF StdinOnKey
    <3>2. action.type = "EraseAndForward" => PcFor(action) # "forward"
      BY DEF PcFor
    <3> HIDE DEF action
    <3>3. \/ stdin'.pc = "read"
          \/ stdin'.pc = PcFor(action) /\ stdin'.action = action
      BY <3>1, BackAtChannel DEF IInv, TypeOK
    <3>4. QED
      BY <3>2, <3>3 DEF InStdin
  <2>2. CASE StdinRead \/ StdinEof \/ StdinMeasure \/ StdinSplice \/ StdinTrack \/ StdinNotify
    <3>1. [Reading EXCEPT !.pc = "ended"].pc # "forward"
      BY DEF Reading
    <3>2. stdin'.pc # "forward"
      BY <2>2, <3>1, BackAtChannel DEF StdinRead, StdinEof, StdinMeasure, StdinSplice,
                StdinTrack, StdinNotify, IInv, TypeOK
    <3>3. QED
      BY <3>2 DEF InStdin
  <2>3. CASE AbortStdin
    BY <2>3 DEF AbortStdin, InStdin, IInv, TypeOK
  <2>4. QED
    BY <2>1, <2>2, <2>3
<1>4. InPtyTask' = InPtyTask
  BY <1>1 DEF InPtyTask
<1>5. Underway' \in Nat /\ Underway' <= Underway /\ Underway \in Nat
  BY <1>1, <1>3, <1>4, UnderwaySum DEF Underway
<1>6. QED
  BY <1>1, <1>2, <1>5, NothingSent

LEMMA EnterStdinSend == IInv /\ EnterInv /\ StdinSend => EnterInv'
<1> SUFFICES ASSUME IInv, EnterInv, StdinSend PROVE EnterInv'
  OBVIOUS
<1> DEFINE write == StdinWrite(stdin.action)
<1>1. /\ SendWrite(write) /\ UNCHANGED <<ptyTask, ptyWrite, ptyOut, tty, history>>
      /\ stdin.pc = "send"
  BY DEF StdinSend
<1>2. stdin.action \in PopupAction /\ Drawable(stdin.action)
      /\ stdin.action.type \in {"Show", "Erase", "EraseAndForward", "Accept"}
  BY <1>1 DEF IInv, TypeOK, InHand
<1>3. write \in TerminalWrite
  BY <1>2, StdinWriteType
<1>4. /\ InStdin = 0
      /\ InStdin' = IF stdin.action.type = "EraseAndForward" THEN 1 ELSE 0
  BY <1>1, <1>2 DEF StdinSend, InStdin, IInv, TypeOK, Reading
<1>5. Credit[write] = IF stdin.action.type = "EraseAndForward" THEN 1 ELSE 0
  <2>1. write.type \in {"ShowPopup", "ErasePopup"}
        /\ (write.type = "ErasePopup" /\ write.cause = "enter"
             <=> stdin.action.type = "EraseAndForward")
    BY <1>2 DEF StdinWrite, ShowPopup, ErasePopup
  <2> HIDE DEF write
  <2>2. QED
    BY <1>3, <2>1 DEF Credit
<1>6. InPtyTask' = InPtyTask
  BY <1>1 DEF InPtyTask
<1>7. Underway' \in Nat /\ Underway \in Nat /\ Underway' <= Underway + Credit[write]
  <2> HIDE DEF write
  <2>1. QED
    BY <1>1, <1>4, <1>5, <1>6, UnderwaySum DEF Underway
<1>8. QED
  <2> HIDE DEF write
  <2>1. QED
    BY <1>1, <1>3, <1>7, OneSent

\* A key is handed on with what is under way for it; a line is not.
LEMMA EnterToShell == IInv /\ EnterInv /\ (StdinForward \/ StdinInject) => EnterInv'
<1> SUFFICES ASSUME IInv, EnterInv, StdinForward \/ StdinInject PROVE EnterInv'
  OBVIOUS
<1> DEFINE key == [type |-> "Key", key |-> stdin.key,
                   cleared |-> stdin.action.type = "EraseAndForward"]
           line == [type |-> "Line", line |-> stdin.line]
<1>1. PICK bytes \in ToShell : /\ ptyWrite' = Append(ptyWrite, bytes)
                               /\ InStdin' = 0 /\ ClearedAhead[bytes] <= InStdin
  <2>1. CASE StdinForward
    <3>1. key \in ToShell
      BY <2>1 DEF StdinForward, IInv, InHand, ToShell
    <3>2. ClearedAhead[key] = InStdin
      BY <2>1, <3>1 DEF ClearedAhead, InStdin, StdinForward
    <3>3. ptyWrite' = Append(ptyWrite, key) /\ InStdin' = 0
      BY <2>1 DEF StdinForward, SendToShell, InStdin, IInv, TypeOK, Reading
    <3> HIDE DEF key
    <3>4. QED
      BY <3>1, <3>2, <3>3, UnderwaySum
  <2>2. CASE StdinInject
    <3>1. line \in ToShell
      BY DEF IInv, TypeOK, ToShell
    <3>2. ClearedAhead[line] = 0
      BY <3>1 DEF ClearedAhead
    <3>3. ptyWrite' = Append(ptyWrite, line) /\ InStdin' = 0
      BY <2>2 DEF StdinInject, SendToShell, InStdin, Reading
    <3> HIDE DEF line
    <3>4. QED
      BY <3>1, <3>2, <3>3, UnderwaySum
  <2>3. QED
    BY <2>1, <2>2
<1>2. UNCHANGED <<ptyTask, writeCh, ptyOut, tty, history>>
  BY DEF StdinForward, StdinInject
<1>3. Total(ClearedAhead, ptyWrite') = Total(ClearedAhead, ptyWrite) + ClearedAhead[bytes]
  BY <1>1, NatWeights, TallyOfAppend DEF IInv, TypeOK
<1>4. ClearedAhead[bytes] \in Nat
  BY WeightTypes
<1>5. InPtyTask' = InPtyTask
  BY <1>2 DEF InPtyTask
<1>6. Underway' \in Nat /\ Underway \in Nat /\ Underway' <= Underway
  <2> DEFINE others == Total(ClearedNewline, tty) + Total(ClearedInChunk, ptyOut) + InPtyTask
             ahead == Total(ClearedAhead, ptyWrite)
             added == ClearedAhead[bytes]
  <2>1. /\ Underway = InStdin + ahead + Total(ClearedNewline, tty)
                        + Total(ClearedInChunk, ptyOut) + InPtyTask
        /\ Underway' = InStdin' + Total(ClearedAhead, ptyWrite') + Total(ClearedNewline, tty)
                         + Total(ClearedInChunk, ptyOut) + InPtyTask
    BY <1>2, <1>5 DEF Underway
  <2>2. /\ InStdin \in Nat /\ ahead \in Nat /\ Total(ClearedNewline, tty) \in Nat
        /\ Total(ClearedInChunk, ptyOut) \in Nat /\ InPtyTask \in Nat
    BY UnderwaySum
  <2>3. added \in Nat /\ added <= InStdin /\ InStdin' = 0
        /\ Total(ClearedAhead, ptyWrite') = ahead + added
    BY <1>1, <1>3, <1>4, <2>2
  <2> HIDE DEF ahead, added
  <2>4. others \in Nat
    BY <2>2
  <2>5. Underway = InStdin + ahead + others
    BY <2>1, <2>2
  <2>6. Underway' = ahead + added + others
    BY <2>1, <2>2, <2>3
  <2> HIDE DEF others
  <2>7. QED
    BY <2>2, <2>3, <2>4, <2>5, <2>6
<1>7. QED
  BY <1>2, <1>6, NothingSent

\* The popup that is drawn or erased in the background counts for nothing.
LEMMA EnterBackground ==
  ASSUME IInv, EnterInv, DebounceTask \/ Resize \/ AbortDebounce
  PROVE  EnterInv'
<1>1. UNCHANGED <<stdin, ptyTask, ptyWrite, ptyOut, tty, history>>
  BY DEF DebounceTask, DebounceRecv, DebounceDrain, DebounceTimeout, DebounceLock,
         DebounceAnswer, DebounceDispatch, Resize, AbortDebounce, channels, tasks
<1>2. Underway' = Underway /\ Underway \in Nat
  BY <1>1, UnderwaySum DEF Underway, InStdin, InPtyTask
<1>3. CASE UNCHANGED writeCh
  BY <1>1, <1>2, <1>3, NothingSent
<1>4. CASE DebounceDispatch
  <2> DEFINE write == IF debounce.action.type = "Show" THEN ShowPopup(debounce.action)
                      ELSE ErasePopup(debounce.action.lines, "hide")
  <2>1. write \in TerminalWrite
    BY DEF IInv, TypeOK, PopupAction, ShowPopup, ErasePopup, TerminalWrite
  <2>2. write.type \in {"ShowPopup", "ErasePopup"}
        /\ ~(write.type = "ErasePopup" /\ write.cause = "enter")
    BY DEF ShowPopup, ErasePopup
  <2>3. SendWrite(write)
    BY <1>4 DEF DebounceDispatch
  <2> HIDE DEF write
  <2>4. Credit[write] = 0
    BY <2>1, <2>2 DEF Credit
  <2>5. QED
    BY <1>1, <1>2, <2>1, <2>3, <2>4, OneSent
<1>5. QED
  BY <1>3, <1>4 DEF DebounceTask, DebounceRecv, DebounceDrain, DebounceTimeout, DebounceLock,
         DebounceAnswer, Resize, AbortDebounce, channels

\* The output of the shell is read in chunks, and each of them handed on.
LEMMA EnterChunks == IInv /\ EnterInv /\ (ReaderChunk \/ PtyRecv) => EnterInv'
<1> SUFFICES ASSUME IInv, EnterInv, ReaderChunk \/ PtyRecv PROVE EnterInv'
  OBVIOUS
<1>1. UNCHANGED <<stdin, writeCh, ptyWrite, history>> /\ InStdin' = InStdin
  BY DEF ReaderChunk, PtyRecv, tasks, InStdin
<1>2. tty \in Seq(Output) /\ ptyOut \in Seq(Seq(Output)) /\ ptyTask.events \in Seq(Output)
  BY DEF IInv, TypeOK
<1>3. CASE ReaderChunk
  <2>1. PICK n \in 1 .. Len(tty) : /\ ptyOut' = Append(ptyOut, SubSeq(tty, 1, n))
                                   /\ tty' = SubSeq(tty, n + 1, Len(tty))
    BY <1>3 DEF ReaderChunk
  <2> DEFINE chunk == SubSeq(tty, 1, n)
             rest == SubSeq(tty, n + 1, Len(tty))
  <2>2. chunk \in Seq(Output) /\ rest \in Seq(Output) /\ tty = chunk \o rest
    <3>1. n \in Nat /\ n <= Len(tty) /\ Len(tty) \in Nat
      BY <1>2
    <3>2. chunk \in Seq(Output) /\ rest \in Seq(Output)
      BY <1>2, <3>1, SliceTypes DEF UpTo, After
    <3>3. chunk \o rest = tty
      BY <1>2, <3>1
    <3>4. QED
      BY <3>2, <3>3
  <2> HIDE DEF chunk, rest
  <2>3. ptyOut' = Append(ptyOut, chunk) /\ tty' = rest
    BY <2>1 DEF chunk, rest
  <2>4. Total(ClearedNewline, tty) = Total(ClearedNewline, chunk) + Total(ClearedNewline, rest)
    BY <2>2, NatWeights, TotalOfConcat
  <2>5. Total(ClearedInChunk, ptyOut') = Total(ClearedInChunk, ptyOut) + ClearedInChunk[chunk]
    BY <1>2, <2>2, <2>3, NatWeights, TallyOfAppend
  <2>6. ClearedInChunk[chunk] = Total(ClearedNewline, chunk)
    BY <2>2 DEF ClearedInChunk
  <2>7. InPtyTask' = InPtyTask
    BY <1>3 DEF ReaderChunk, tasks, InPtyTask
  <2>8. Total(ClearedNewline, chunk) \in Nat /\ Total(ClearedNewline, rest) \in Nat
    BY <2>2, WeightTypes, TotalType
  <2>9. Underway' = Underway /\ Underway \in Nat
    BY <1>1, <2>3, <2>4, <2>5, <2>6, <2>7, <2>8, UnderwaySum DEF Underway
  <2>10. QED
    BY <1>1, <2>9, NothingSent
<1>4. CASE PtyRecv
  <2>1. /\ ptyTask.pc = "recv" /\ ptyOut # <<>> /\ ptyOut' = Tail(ptyOut) /\ tty' = tty
        /\ ptyTask'.pc = "pass" /\ ptyTask'.events = Head(ptyOut)
    BY <1>4 DEF PtyRecv, IInv, TypeOK
  <2>2. Head(ptyOut) \in Seq(Output) /\ Tail(ptyOut) \in Seq(Seq(Output))
    BY <1>2, <2>1, HeadTailProperties
  <2>3. Total(ClearedInChunk, ptyOut) =
          ClearedInChunk[Head(ptyOut)] + Total(ClearedInChunk, Tail(ptyOut))
    BY <1>2, <2>1, NatWeights, TallyOfTail
  <2>4. ClearedInChunk[Head(ptyOut)] = Total(ClearedNewline, Head(ptyOut))
    BY <2>2 DEF ClearedInChunk
  <2>5. InPtyTask = 0 /\ InPtyTask' = Total(ClearedNewline, Head(ptyOut))
    BY <2>1 DEF InPtyTask
  <2>6. Total(ClearedNewline, Head(ptyOut)) \in Nat
        /\ Total(ClearedInChunk, Tail(ptyOut)) \in Nat
    BY <2>2, WeightTypes, TotalType
  <2>7. Underway' = Underway /\ Underway \in Nat
    BY <1>1, <2>1, <2>3, <2>4, <2>5, <2>6, UnderwaySum DEF Underway
  <2>8. QED
    BY <1>1, <2>7, NothingSent
<1>5. QED
  BY <1>3, <1>4

\* A chunk is passed to the terminal behind the erases for its line feeds.
LEMMA EnterPass == IInv /\ EnterInv /\ PtyPass => EnterInv'
<1> SUFFICES ASSUME IInv, EnterInv, PtyPass PROVE EnterInv'
  OBVIOUS
<1> DEFINE write == Passthrough(ptyTask.events)
<1>1. /\ UNCHANGED <<stdin, ptyWrite, ptyOut, tty, history>> /\ InStdin' = InStdin
      /\ ptyTask.pc = "pass" /\ ptyTask' = WithEvents(ptyTask.events)
      /\ SendWrite(write) \/ UNCHANGED writeCh
  BY DEF PtyPass, InStdin
<1>2. ptyTask.events \in Seq(Output)
  BY DEF IInv, TypeOK
<1>3. ptyTask'.pc \in {"recv", "events"}
  BY <1>1, <1>2, WithEventsType
<1>4. InPtyTask = Total(ClearedNewline, ptyTask.events) /\ InPtyTask' = 0
  BY <1>1, <1>3 DEF InPtyTask
<1>5. write \in TerminalWrite /\ write.type = "Passthrough"
      /\ write.cleared = Total(ClearedNewline, ptyTask.events)
  BY <1>2, PassthroughType, ClearedPassed
<1> HIDE DEF write
<1>6. Credit[write] = 0 - write.cleared
  BY <1>5 DEF Credit
<1>7. Underway' \in Nat /\ Underway \in Nat /\ Underway' = Underway - InPtyTask
      /\ InPtyTask \in Nat
  BY <1>1, <1>4, UnderwaySum DEF Underway
<1>8. CASE UNCHANGED writeCh
  BY <1>1, <1>7, <1>8, NothingSent
<1>9. CASE SendWrite(write)
  <2>1. Underway' <= Underway + Credit[write]
    BY <1>4, <1>5, <1>6, <1>7
  <2>2. QED
    BY <1>1, <1>5, <1>7, <1>9, <2>1, OneSent
<1>10. QED
  BY <1>1, <1>8, <1>9

\* The events of a chunk, and the popup that one of them erases, count for nothing.
LEMMA EnterEvents ==
  ASSUME IInv, EnterInv,
         PtyCommandLine \/ PtyPromptStart \/ PtyReset \/ PtyErase \/ PtyPromptEnd \/ PtyEnd
  PROVE  EnterInv'
<1>1. UNCHANGED <<stdin, ptyWrite, ptyOut, tty, history>> /\ InStdin' = InStdin
  BY DEF PtyCommandLine, PtyPromptStart, PtyReset, PtyErase, PtyPromptEnd, PtyEnd, channels,
         InStdin
<1>2. ptyTask'.pc # "pass"
  <2>1. CASE PtyPromptStart \/ PtyEnd \/ (PtyReset /\ popup.visible)
    BY <2>1 DEF PtyPromptStart, PtyEnd, PtyReset, IInv, TypeOK
  <2>2. CASE PtyCommandLine \/ PtyErase \/ PtyPromptEnd \/ (PtyReset /\ ~popup.visible)
    <3>1. ptyTask.pc \in {"events", "reset", "erase"}
          /\ ptyTask' = WithEvents(Tail(ptyTask.events))
      BY <2>2 DEF PtyCommandLine, PtyReset, PtyErase, PtyPromptEnd
    <3>2. Tail(ptyTask.events) \in Seq(Output)
      BY <3>1, HeadTailProperties DEF IInv, TypeOK, InHand
    <3>3. QED
      BY <3>1, <3>2, WithEventsType
  <2>3. QED
    BY <2>1, <2>2
<1>3. InPtyTask' = 0
  BY <1>2 DEF InPtyTask
<1>4. Underway' \in Nat /\ Underway \in Nat /\ Underway' <= Underway
  BY <1>1, <1>3, UnderwaySum DEF Underway
<1>5. CASE UNCHANGED writeCh
  BY <1>1, <1>4, <1>5, NothingSent
<1>6. CASE PtyErase
  <2> DEFINE write == ErasePopup(ptyTask.lines, "hide")
  <2>1. write \in TerminalWrite /\ SendWrite(write)
    BY <1>6 DEF PtyErase, IInv, TypeOK, ErasePopup, TerminalWrite
  <2>2. write.type = "ErasePopup" /\ write.cause # "enter"
    BY DEF ErasePopup
  <2> HIDE DEF write
  <2>3. Credit[write] = 0
    BY <2>1, <2>2 DEF Credit
  <2>4. QED
    BY <1>1, <1>4, <2>1, <2>3, OneSent
<1>7. QED
  BY <1>5, <1>6 DEF PtyCommandLine, PtyPromptStart, PtyReset, PtyPromptEnd, PtyEnd, channels

\* A balance that grows by what the head of a queue adds bounds what is left of the queue.
LEMMA BalanceMoves ==
  ASSUME NEW c0 \in Int, NEW s0 \in Int, NEW c1 \in Int, NEW s1 \in Int, NEW u \in Int,
         NEW added \in Int, NEW after \in Int, NEW before,
         c1 - s1 = c0 - s0 + added, before = added + after, s0 + u <= c0 + before
  PROVE  s1 + u <= c1 + after
OBVIOUS

\* A write reaches the terminal: what it adds is counted as done.
LEMMA EnterWritten == IInv /\ EnterInv /\ WriterStep => EnterInv'
<1> SUFFICES ASSUME IInv, EnterInv, WriterStep PROVE EnterInv'
  OBVIOUS
<1> DEFINE write == Head(writeCh)
           rest == Tail(writeCh)
<1>1. /\ UNCHANGED <<stdin, ptyTask, ptyWrite, ptyOut, tty>>
      /\ writeCh # <<>> /\ writeCh' = rest
  BY DEF WriterStep, tasks
<1>2. writeCh \in Seq(TerminalWrite) /\ write \in TerminalWrite /\ rest \in Seq(TerminalWrite)
      /\ Len(rest) = Len(writeCh) - 1 /\ Len(writeCh) \in Nat /\ Len(writeCh) > 0
  BY <1>1, HeadTailProperties DEF IInv, TypeOK
<1>3. /\ \A n \in 0 .. Len(rest) :
           Tally(Credit, writeCh)[n + 1] = Credit[write] + Tally(Credit, rest)[n]
      /\ Total(Credit, writeCh) = Credit[write] + Total(Credit, rest)
  BY <1>1, <1>2, WeightTypes, TallyOfTail
<1>4. history'.cleared - history'.submitted =
        history.cleared - history.submitted + Credit[write]
  <2>1. history \in [expected : String, cleared : Nat, submitted : Nat]
    BY DEF IInv, TypeOK
  <2>2. history' =
              CASE write.type = "Passthrough" -> [history EXCEPT !.submitted = @ + write.cleared]
                [] write.type = "ErasePopup" /\ write.cause = "enter" ->
                     [history EXCEPT !.cleared = @ + 1]
                [] OTHER -> history
    BY DEF WriterStep
  <2> HIDE DEF write
  <2>3. CASE write.type = "Passthrough"
    <3>1. write.cleared \in Nat /\ Credit[write] = 0 - write.cleared
      BY <1>2, <2>3 DEF TerminalWrite, Credit
    <3>2. history' = [history EXCEPT !.submitted = @ + write.cleared]
      BY <2>2, <2>3
    <3>3. QED
      BY <2>1, <3>1, <3>2
  <2>4. CASE write.type = "ErasePopup" /\ write.cause = "enter"
    <3>1. Credit[write] = 1
      BY <1>2, <2>4 DEF Credit
    <3>2. history' = [history EXCEPT !.cleared = @ + 1]
      BY <2>2, <2>4
    <3>3. QED
      BY <2>1, <3>1, <3>2
  <2>5. CASE ~(write.type = "Passthrough")
             /\ ~(write.type = "ErasePopup" /\ write.cause = "enter")
    <3>1. Credit[write] = 0
      BY <1>2, <2>5 DEF Credit
    <3>2. history' = history
      BY <2>2, <2>5
    <3>3. QED
      BY <2>1, <3>1, <3>2
  <2>6. QED
    BY <2>3, <2>4, <2>5
<1> HIDE DEF write, rest
<1>5. history.cleared \in Nat /\ history.submitted \in Nat
      /\ history'.cleared \in Nat /\ history'.submitted \in Nat
  BY NextInv DEF IInv, TypeOK, Next
<1>6. Credit[write] \in Int
  BY <1>2, WeightTypes
<1>7. Underway' = Underway /\ Underway \in Nat
  BY <1>1, UnderwaySum DEF Underway, InStdin, InPtyTask
<1>8. Total(Credit, rest) \in Int /\ \A n \in 0 .. Len(rest) : Tally(Credit, rest)[n] \in Int
  BY <1>2, WeightTypes, TotalType, TallyType
<1>9. ASSUME NEW n \in 0 .. Len(rest)
      PROVE  history'.submitted <= history'.cleared + Tally(Credit, rest)[n]
  <2>1. n + 1 \in 0 .. Len(writeCh)
    BY <1>2
  <2>2. history.submitted <= history.cleared + Tally(Credit, writeCh)[n + 1]
    BY <2>1 DEF EnterInv
  <2>3. Tally(Credit, writeCh)[n + 1] = Credit[write] + Tally(Credit, rest)[n]
    BY <1>3
  <2>4. Tally(Credit, rest)[n] \in Int
    BY <1>8
  <2> DEFINE after == Tally(Credit, rest)[n]
             before == Tally(Credit, writeCh)[n + 1]
  <2>5. after \in Int /\ before = Credit[write] + after
        /\ history.submitted + 0 <= history.cleared + before
    BY <1>5, <2>2, <2>3, <2>4
  <2> HIDE DEF after, before
  <2>6. history'.submitted + 0 <= history'.cleared + after
    <3> DEFINE c0 == history.cleared
               s0 == history.submitted
               c1 == history'.cleared
               s1 == history'.submitted
               added == Credit[write]
    <3>1. c0 \in Int /\ s0 \in Int /\ c1 \in Int /\ s1 \in Int /\ added \in Int
          /\ after \in Int /\ c1 - s1 = c0 - s0 + added /\ before = added + after
          /\ s0 + 0 <= c0 + before
      BY <1>4, <1>5, <1>6, <2>5
    <3> HIDE DEF c0, s0, c1, s1, added
    <3>2. s1 + 0 <= c1 + after
      BY ONLY <3>1, BalanceMoves
    <3>3. QED
      BY <3>2 DEF c1, s1
  <2>7. QED
    BY <1>5, <2>6 DEF after
<1>10. history'.submitted + Underway' <= history'.cleared + Total(Credit, rest)
  <2>1. history.submitted + Underway <= history.cleared + Total(Credit, writeCh)
    BY DEF EnterInv
  <2>2. Total(Credit, writeCh) = Credit[write] + Total(Credit, rest)
    BY <1>3
  <2> DEFINE after == Total(Credit, rest)
             before == Total(Credit, writeCh)
  <2>3. after \in Int /\ before = Credit[write] + after
        /\ history.submitted + Underway <= history.cleared + before
    BY <1>8, <2>1, <2>2
  <2> HIDE DEF after, before
  <2>4. history'.submitted + Underway' <= history'.cleared + after
    <3>1. history.submitted + Underway <= history.cleared + before
          /\ after \in Int /\ before = Credit[write] + after /\ Underway \in Int
      BY <1>7, <2>3
    <3>2. history'.submitted + Underway <= history'.cleared + after
      BY <1>4, <1>5, <1>6, <3>1, BalanceMoves
    <3>3. QED
      BY <1>7, <3>2
  <2>5. QED
    BY <2>4 DEF after
<1>11. QED
  BY <1>1, <1>9, <1>10 DEF EnterInv

\* The line feed of a key is written by the shell when it has read it.
LEMMA EnterShell ==
  ASSUME IInv, EnterInv, ShellStep \/ ShellExits
  PROVE  EnterInv'
<1>1. UNCHANGED <<stdin, ptyTask, writeCh, ptyOut>>
      /\ InStdin' = InStdin /\ InPtyTask' = InPtyTask
  BY DEF ShellStep, ShellReadsKey, ShellReadsLine, ShellPrompts, ShellExits, tasks, channels,
         InStdin, InPtyTask
<1>2. history'.cleared = history.cleared /\ history'.submitted = history.submitted
  BY DEF ShellStep, ShellReadsKey, ShellReadsLine, ShellPrompts, ShellExits, IInv, TypeOK
<1>3. shell \in ShellState /\ tty \in Seq(Output) /\ ptyWrite \in Seq(ToShell)
  BY DEF IInv, TypeOK
<1>4. ASSUME NEW sh \in ShellState PROVE Total(ClearedNewline, <<Echo>> \o Report(sh)) = 0
  <2>1. Echo \in Output /\ Echo.type = "Text"
    BY DEF Echo, Output
  <2>2. CommandLine(sh) \in Output /\ CommandLine(sh).type = "CommandLine"
    BY DEF CommandLine, Output, ShellState
  <2>3. ClearedNewline[Echo] = 0 /\ ClearedNewline[CommandLine(sh)] = 0
    BY <2>1, <2>2 DEF ClearedNewline
  <2>4. Total(ClearedNewline, <<Echo>>) = 0 /\ Total(ClearedNewline, <<CommandLine(sh)>>) = 0
    BY <2>1, <2>2, <2>3, NatWeights, TotalOfOne
  <2>5. Report(sh) \in Seq(Output) /\ Total(ClearedNewline, Report(sh)) = 0
    BY <2>2, <2>4, NatWeights, TotalOfEmpty DEF Report
  <2>6. <<Echo>> \in Seq(Output)
    BY <2>1
  <2>7. Total(ClearedNewline, <<Echo>> \o Report(sh)) =
          Total(ClearedNewline, <<Echo>>) + Total(ClearedNewline, Report(sh))
    BY <2>5, <2>6, NatWeights, TotalOfConcat
  <2>8. QED
    BY <2>4, <2>5, <2>7
<1>5. ASSUME NEW bytes \in ToShell, NEW written \in Seq(Output),
             ptyWrite # <<>>, bytes = Head(ptyWrite), ptyWrite' = Tail(ptyWrite),
             tty' = tty \o written, Total(ClearedNewline, written) <= ClearedAhead[bytes]
      PROVE  EnterInv'
  <2>1. Total(ClearedAhead, ptyWrite) = ClearedAhead[bytes] + Total(ClearedAhead, Tail(ptyWrite))
    BY <1>3, <1>5, NatWeights, TallyOfTail
  <2>2. Total(ClearedNewline, tty') = Total(ClearedNewline, tty) + Total(ClearedNewline, written)
    BY <1>3, <1>5, NatWeights, TotalOfConcat
  <2>3. Total(ClearedAhead, Tail(ptyWrite)) \in Nat /\ Total(ClearedNewline, written) \in Nat
        /\ ClearedAhead[bytes] \in Nat
    <3>1. Tail(ptyWrite) \in Seq(ToShell)
      BY <1>3, <1>5, HeadTailProperties
    <3>2. QED
      BY <3>1, WeightTypes, TotalType
  <2>4. Underway' \in Nat /\ Underway \in Nat /\ Underway' <= Underway
    <3> DEFINE left == Total(ClearedAhead, Tail(ptyWrite))
               added == Total(ClearedNewline, written)
    <3>1. Underway' = InStdin + left + (Total(ClearedNewline, tty) + added)
                        + Total(ClearedInChunk, ptyOut) + InPtyTask
      BY <1>1, <1>5, <2>2 DEF Underway
    <3>2. Underway = InStdin + (ClearedAhead[bytes] + left)
                       + Total(ClearedNewline, tty) + Total(ClearedInChunk, ptyOut) + InPtyTask
      BY <2>1 DEF Underway
    <3>3. /\ InStdin \in Nat /\ Total(ClearedNewline, tty) \in Nat
          /\ Total(ClearedInChunk, ptyOut) \in Nat /\ InPtyTask \in Nat
      BY UnderwaySum
    <3>4. added <= ClearedAhead[bytes] /\ left \in Nat /\ added \in Nat
          /\ ClearedAhead[bytes] \in Nat
      BY <1>5, <2>3
    <3> DEFINE newlines == Total(ClearedNewline, tty)
               chunks == Total(ClearedInChunk, ptyOut)
               ahead == ClearedAhead[bytes]
    <3>5. /\ InStdin \in Nat /\ newlines \in Nat /\ chunks \in Nat /\ InPtyTask \in Nat
          /\ added <= ahead /\ left \in Nat /\ added \in Nat /\ ahead \in Nat
      BY <3>3, <3>4
    <3>6. /\ Underway' = InStdin + left + (newlines + added) + chunks + InPtyTask
          /\ Underway = InStdin + (ahead + left) + newlines + chunks + InPtyTask
      BY <3>1, <3>2
    <3> HIDE DEF left, added, newlines, chunks, ahead
    <3>7. Underway' \in Nat /\ Underway \in Nat
      BY <3>5, <3>6
    <3>8. Underway' <= Underway
      BY <3>5, <3>6
    <3>9. QED
      BY <3>7, <3>8
  <2>5. QED
    BY <1>1, <1>2, <2>4, NothingSent
<1>6. CASE ShellReadsKey
  <2> DEFINE bytes == Head(ptyWrite)
             written == KeyOutput(shell, bytes.key, bytes.cleared)
  <2>1. ptyWrite # <<>> /\ bytes.type = "Key" /\ ptyWrite' = Tail(ptyWrite)
        /\ tty' = tty \o written
    BY <1>6 DEF ShellReadsKey
  <2>2. bytes \in ToShell
    BY <1>3, <2>1, HeadTailProperties
  <2> HIDE DEF bytes
  <2>3. bytes.key \in Keys /\ bytes.cleared \in BOOLEAN
    BY <2>1, <2>2 DEF ToShell
  <2>4. written \in Seq(Output) /\ KeyRead(shell, bytes.key) \in ShellState
    BY <1>3, <2>3, ShellTypes
  <2>5. ClearedAhead[bytes] = IF bytes.cleared THEN 1 ELSE 0
    BY <2>1, <2>2 DEF ClearedAhead
  <2>6. Total(ClearedNewline, written) <= ClearedAhead[bytes]
    <3>1. CASE bytes.key.type \in {"Char", "Backspace"}
      BY <1>4, <2>4, <2>5, <3>1 DEF KeyOutput
    <3>2. CASE bytes.key.type \in {"Enter", "CtrlC"}
      <4>1. written = <<Newline(bytes.cleared)>>
        BY <3>2 DEF KeyOutput
      <4>2. Newline(bytes.cleared) \in Output
            /\ ClearedNewline[Newline(bytes.cleared)] = IF bytes.cleared THEN 1 ELSE 0
        BY <2>3 DEF Newline, Output, ClearedNewline
      <4>3. QED
        BY <2>5, <4>1, <4>2, NatWeights, TotalOfOne
    <3>3. CASE bytes.key.type \notin {"Char", "Backspace", "Enter", "CtrlC"}
      <4>1. written = <<Echo>>
        BY <3>3 DEF KeyOutput
      <4>2. Echo \in Output /\ ClearedNewline[Echo] = 0
        BY DEF Echo, Output, ClearedNewline
      <4>3. QED
        BY <2>5, <4>1, <4>2, NatWeights, TotalOfOne
    <3>4. QED
      BY <3>1, <3>2, <3>3
  <2> HIDE DEF written
  <2>7. QED
    BY <1>5, <2>1, <2>2, <2>4, <2>6 DEF bytes
<1>7. CASE ShellReadsLine
  <2> DEFINE bytes == Head(ptyWrite)
             written == ReplaceOutput(shell, bytes.line)
  <2>1. ptyWrite # <<>> /\ bytes.type = "Line" /\ ptyWrite' = Tail(ptyWrite)
        /\ tty' = tty \o written
    BY <1>7 DEF ShellReadsLine
  <2>2. bytes \in ToShell
    BY <1>3, <2>1, HeadTailProperties
  <2> HIDE DEF bytes
  <2>3. bytes.line \in String
    BY <2>1, <2>2 DEF ToShell
  <2>4. written \in Seq(Output) /\ LineReplaced(shell, bytes.line) \in ShellState
    BY <1>3, <2>3, ShellTypes
  <2>5. Total(ClearedNewline, written) = 0
    BY <1>4, <2>4 DEF ReplaceOutput
  <2>6. ClearedAhead[bytes] \in Nat
    BY <2>2, WeightTypes
  <2> HIDE DEF written
  <2>7. QED
    BY <1>5, <2>1, <2>2, <2>4, <2>5, <2>6 DEF bytes
<1>8. CASE ShellPrompts
  <2>1. tty' = tty \o Prompt /\ ptyWrite' = ptyWrite
    BY <1>8 DEF ShellPrompts
  <2>2. Prompt \in Seq(Output) /\ Total(ClearedNewline, Prompt) = 0
    <3>1. PromptStart \in Output /\ Echo \in Output /\ PromptEnd \in Output
      BY DEF PromptStart, Echo, PromptEnd, Output
    <3>2. ClearedNewline[PromptStart] = 0 /\ ClearedNewline[Echo] = 0
          /\ ClearedNewline[PromptEnd] = 0
      BY <3>1 DEF ClearedNewline, PromptStart, Echo, PromptEnd
    <3> DEFINE first == <<PromptStart>>
               second == Append(first, Echo)
    <3>3. first \in Seq(Output) /\ second \in Seq(Output)
      BY <3>1
    <3>4. Prompt = Append(second, PromptEnd)
      BY DEF Prompt
    <3>5. Total(ClearedNewline, first) = 0
      BY <3>1, <3>2, NatWeights, TotalOfOne
    <3> HIDE DEF first
    <3>6. Total(ClearedNewline, second) = 0
      BY <3>1, <3>2, <3>3, <3>5, NatWeights, TallyOfAppend
    <3> HIDE DEF second
    <3>7. Total(ClearedNewline, Append(second, PromptEnd)) =
            Total(ClearedNewline, second) + ClearedNewline[PromptEnd]
      BY <3>1, <3>3, NatWeights, TallyOfAppend
    <3>8. QED
      BY <3>1, <3>2, <3>3, <3>4, <3>6, <3>7
  <2>3. Total(ClearedNewline, tty') = Total(ClearedNewline, tty)
    <3>1. Total(ClearedNewline, tty \o Prompt) =
            Total(ClearedNewline, tty) + Total(ClearedNewline, Prompt)
      BY <1>3, <2>2, NatWeights, TotalOfConcat
    <3>2. QED
      BY <2>1, <2>2, <3>1, UnderwaySum
  <2>4. Underway' = Underway /\ Underway \in Nat
    BY <1>1, <2>1, <2>3, UnderwaySum DEF Underway
  <2>5. QED
    BY <1>1, <1>2, <2>4, NothingSent
<1>9. CASE ShellExits
  <2>1. Underway' = Underway /\ Underway \in Nat
    BY <1>1, <1>9, UnderwaySum DEF ShellExits, channels, Underway
  <2>2. QED
    BY <1>1, <1>2, <2>1, NothingSent
<1>10. QED
  BY <1>6, <1>7, <1>8, <1>9 DEF ShellStep

\* The end of the session drops what is ahead of the shell.
LEMMA EnterShutdown ==
  ASSUME IInv, EnterInv, Shutdown \/ Rest \/ UNCHANGED vars
  PROVE  EnterInv'
<1>1. CASE AbortStdin
  BY <1>1, EnterStdinQuiet
<1>2. CASE AbortDebounce
  BY <1>2, EnterBackground
<1>3. CASE AbortPtyWriter
  <2>1. /\ UNCHANGED <<stdin, ptyTask, tty, ptyOut, writeCh, history>> /\ ptyWrite' = <<>>
        /\ InStdin' = InStdin /\ InPtyTask' = InPtyTask
    BY <1>3 DEF AbortPtyWriter, InStdin, InPtyTask
  <2>2. Total(ClearedAhead, ptyWrite') = 0
    BY <2>1, NatWeights, TotalOfEmpty
  <2>3. Underway' \in Nat /\ Underway \in Nat /\ Underway' <= Underway
    BY <2>1, <2>2, UnderwaySum DEF Underway
  <2>4. QED
    BY <2>1, <2>3, NothingSent
<1>4. CASE AbortSigwinch \/ JoinWriter \/ Rest \/ UNCHANGED vars
  <2>1. UNCHANGED <<stdin, ptyTask, ptyWrite, tty, ptyOut, writeCh, history>>
    BY <1>4 DEF AbortSigwinch, JoinWriter, Rest, vars, tasks, channels
  <2>2. Underway' = Underway /\ Underway \in Nat
    BY <2>1, UnderwaySum DEF Underway, InStdin, InPtyTask
  <2>3. QED
    BY <2>1, <2>2, NothingSent
<1>5. QED
  BY <1>1, <1>2, <1>3, <1>4 DEF Shutdown

LEMMA EnterNext == IInv /\ EnterInv /\ [Next]_vars => EnterInv'
<1> SUFFICES ASSUME IInv, EnterInv, [Next]_vars PROVE EnterInv'
  OBVIOUS
<1>1. CASE StdinWork \/ StdinEof
  BY <1>1, EnterStdinQuiet, EnterStdinSend, EnterToShell DEF StdinWork
<1>2. CASE DebounceTask \/ Resize
  BY <1>2, EnterBackground
<1>3. CASE ReaderChunk \/ PtyTask
  BY <1>3, EnterChunks, EnterPass, EnterEvents DEF PtyTask
<1>4. CASE WriterStep
  BY <1>4, EnterWritten
<1>5. CASE ShellStep \/ ShellExits
  BY <1>5, EnterShell
<1>6. CASE Shutdown \/ Rest \/ UNCHANGED vars
  BY <1>6, EnterShutdown
<1>7. QED
  BY <1>1, <1>2, <1>3, <1>4, <1>5, <1>6 DEF Next

LEMMA EnterImplies == IInv /\ EnterInv => EnterErasesFirst
<1> SUFFICES ASSUME IInv, EnterInv PROVE EnterErasesFirst
  OBVIOUS
<1>1. writeCh \in Seq(TerminalWrite) /\ 0 \in 0 .. Len(writeCh) /\ history.cleared \in Nat
  BY DEF IInv, TypeOK
<1>2. Tally(Credit, writeCh)[0] = 0
  BY <1>1, WeightTypes, TallyEquation
<1>3. history.submitted <= history.cleared + Tally(Credit, writeCh)[0]
  BY <1>1 DEF EnterInv
<1>4. QED
  BY <1>1, <1>2, <1>3 DEF EnterErasesFirst

(* No output of a line that was submitted from under a popup reaches the   *)
(* terminal before the popup's erase, however the erase, the key, the      *)
(* shell's output and its chunks are scheduled: the stdin task sends the   *)
(* erase before it forwards the key (event_loop.rs:426-429, 219-223).      *)
THEOREM EnterAlwaysErasesFirst == Spec => []EnterErasesFirst
<1>1. Init => EnterInv
  BY EnterInit
<1>2. IInv /\ EnterInv /\ [Next]_vars => EnterInv'
  BY EnterNext
<1>3. IInv /\ EnterInv => EnterErasesFirst
  BY EnterImplies
<1>4. QED
  BY <1>1, <1>2, <1>3, SpecInv, PTL DEF Spec

-----------------------------------------------------------------------------
(* The line.  While the user edits it, and the shell reports nothing, the  *)
(* tracker is ahead of the shell by the keys that are on their way to it.  *)

EditKeys == {"Char", "Backspace", "ArrowLeft", "ArrowRight", "ArrowUp", "ArrowDown", "Escape",
             "CtrlL", "CtrlD"}

\* The user edits one line of a shell that is at its prompt (bash: it does not
\* report its line).  What is typed is otherwise free, and may end the shell.
OnlyEdits ==
  /\ ~ReportsLine /\ StartMode = "prompt"
  /\ \A keys \in Typing : \A i \in DOMAIN keys : keys[i].type \in EditKeys

EditKey == {key \in Keys : key.type \in EditKeys}
EditBytes == {bytes \in ToShell : bytes.type = "Key" /\ bytes.key \in EditKey}
Texts == {out \in Output : out.type = "Text"}

\* Nothing but such keys is under way, and nothing but their echo comes back.
OnlyEditsUnderway ==
  /\ input \in Seq(EditKey)
  /\ stdin.pc \in {"onKey", "send", "forward", "track", "notify"} => stdin.key \in EditKey
  /\ stdin.pc = "send" => stdin.action.type \in {"Show", "Erase"}
  /\ stdin.pc = "forward" => stdin.action.type = "ForwardKey"
  /\ stdin.pc \notin {"measure", "splice", "inject"}
  /\ ptyWrite \in Seq(EditBytes)
  /\ tty \in Seq(Texts) /\ ptyOut \in Seq(Seq(Texts))
  /\ ptyTask.pc \in {"recv", "pass", "ended"} /\ ptyTask.events \in Seq(Texts)
  /\ shell.mode # "running"

\* The session does not end before the shell.
EndsWithShell ==
  /\ ptyTask.pc = "ended" => shell.mode = "exited"
  /\ main # "running" => ptyTask.pc = "ended"

\* The shell's line and cursor, as the tracker holds them.
ShellView == [buffer |-> shell.line, cursor |-> shell.cursor]

\* The tracker, when it has followed the key that has just been forwarded.
Tracked == IF stdin.pc = "track" THEN TrackKey(tracker, stdin.key) ELSE tracker

\* What the line will be after each of the keys that are on their way.
Ahead(lines) ==
  /\ lines[0] = ShellView
  /\ \A n \in 1 .. Len(ptyWrite) : lines[n] = TrackKey(lines[n - 1], ptyWrite[n].key)
  /\ lines[Len(ptyWrite)] = Tracked

TrackerAhead ==
  shell.mode = "prompt" => \E lines \in [0 .. Len(ptyWrite) -> Tracker] : Ahead(lines)

\* The line of the update that the popup will have handled in the end.
LatestBuffer ==
  CASE debounceCh # <<>> -> debounceCh[Len(debounceCh)].buffer
    [] debounceCh = <<>> /\ debounce.pc \in {"drain", "lock"} -> debounce.buffer
    [] OTHER -> popup.lastBuffer

PopupCatchesUp ==
  main = "running" /\ debounce.pc \notin {"panicked", "aborted"} /\ stdin.pc # "notify" =>
    LatestBuffer = tracker.buffer

LineInv == OnlyEditsUnderway /\ EndsWithShell /\ TrackerAhead /\ PopupCatchesUp

\* What the popup does with such a key: it neither accepts nor submits.
LEMMA OnKeyOfEdit ==
  ASSUME NEW p \in Popup, NEW key, key.type \in EditKeys
  PROVE  /\ OnKey(p, key).action.type \in {"Nothing", "ForwardKey", "Show", "Erase", "Panic"}
         /\ OnKey(p, key).popup.lastBuffer = p.lastBuffer
<1> DEFINE Fits(result) ==
             /\ result.action.type \in {"Nothing", "ForwardKey", "Show", "Erase", "Panic"}
             /\ result.popup.lastBuffer = p.lastBuffer
<1>1. ASSUME NEW q, q \in Popup, q.lastBuffer = p.lastBuffer PROVE Fits(Hide(q))
  BY <1>1 DEF Hide, Result, Closed, Erase, Action, Popup
<1>2. ASSUME NEW q, q \in Popup, q.lastBuffer = p.lastBuffer, NEW prev
      PROVE  Fits(RenderInplace(q, prev))
  <2>1. CASE q.items = <<>>
    BY <1>1, <1>2, <2>1 DEF RenderInplace
  <2>2. CASE q.items # <<>> /\ TooNarrow(q.terminalCols)
    BY <1>2, <2>2 DEF RenderInplace, Result, Action
  <2>3. CASE q.items # <<>> /\ ~TooNarrow(q.terminalCols)
    BY <1>2, <2>3 DEF RenderInplace, Result, Show, Action, Popup
  <2>4. QED
    BY <2>1, <2>2, <2>3
<1>3. ASSUME NEW item, p.items # <<>> => item \in Nat PROVE Fits(Select(p, item))
  <2>1. CASE p.items = <<>>
    BY <2>1 DEF Select, Result, Action
  <2>2. CASE p.items # <<>>
    <3> DEFINE q == [p EXCEPT !.selected = item % Len(p.items)]
    <3>1. Len(p.items) \in Nat \ {0}
      BY <2>2, EmptySeq DEF Popup
    <3>2. item % Len(p.items) \in Nat
      <4>1. item % Len(p.items) \in 0 .. Len(p.items) - 1
        BY <1>3, <2>2, <3>1, Remainder
      <4>2. QED
        BY <3>1, <4>1
    <3>3. q \in Popup /\ q.lastBuffer = p.lastBuffer
      BY <3>2 DEF Popup
    <3> HIDE DEF q, Fits
    <3>4. Fits(RenderInplace(q, p.popupLines))
      BY <1>2, <3>3
    <3>5. QED
      BY <2>2, <3>4 DEF Select, q
  <2>3. QED
    BY <2>1, <2>2
<1>4. p.items # <<>> => p.selected + 1 \in Nat /\ p.selected + Len(p.items) - 1 \in Nat
  <2>1. p.items # <<>> => Len(p.items) \in Nat \ {0}
    BY EmptySeq DEF Popup
  <2>2. p.selected \in Nat
    BY DEF Popup
  <2>3. QED
    BY <2>1, <2>2
<1>5. Fits(Select(p, p.selected + 1)) /\ Fits(Select(p, p.selected + Len(p.items) - 1))
  BY <1>3, <1>4
<1>6. Fits(Hide(p)) /\ Fits(Result(p, Action("ForwardKey")))
  BY <1>1 DEF Result, Action
<1> HIDE DEF Fits
<1>7. Fits(OnKey(p, key))
  BY <1>5, <1>6 DEF OnKey, EditKeys
<1>8. QED
  BY <1>7 DEF Fits

\* A sequence of what satisfies more is one of that.
LEMMA SeqOfSome ==
  ASSUME NEW S, NEW T, NEW s \in Seq(S), \A i \in 1 .. Len(s) : s[i] \in T
  PROVE  s \in Seq(T)
<1>1. Len(s) \in Nat /\ s = [i \in 1 .. Len(s) |-> s[i]]
  OBVIOUS
<1>2. s \in [1 .. Len(s) -> T]
  BY <1>1
<1>3. QED
  BY <1>1, <1>2, SeqDef

\* Text without markers is passed on, and nothing of it is left to handle.
LEMMA TextsPassed ==
  ASSUME NEW events \in Seq(Texts)
  PROVE  WithEvents(events) = Processing
<1> DEFINE texts == {n \in 1 .. Len(events) : \A i \in 1 .. n : ~IsEvent(events[i])}
<1>1. \A i \in 1 .. Len(events) : ~IsEvent(events[i])
  BY DEF Texts, IsEvent
<1>2. Len(events) \in Nat /\ texts = 1 .. Len(events)
  BY <1>1
<1> HIDE DEF texts
<1>3. Greatest(texts) = Len(events)
  <2>1. CASE Len(events) = 0
    BY <1>2, <2>1 DEF Greatest
  <2>2. CASE Len(events) > 0
    <3>1. {n \in texts : \A m \in texts : m <= n} = {Len(events)}
      BY <1>2, <2>2
    <3>2. QED
      BY <3>1 DEF Greatest
  <2>3. QED
    BY <1>2, <2>1, <2>2
<1>4. QED
  BY <1>3 DEF WithEvents, texts

\* What the shell makes of such a key: the line stays at its prompt, or the
\* shell exits, and only text comes back.
LEMMA ShellOnEdit ==
  ASSUME OnlyEdits, NEW sh \in ShellState, NEW key \in EditKey, NEW cleared, sh.mode = "prompt"
  PROVE  /\ KeyRead(sh, key).mode \in {"prompt", "exited"}
         /\ KeyOutput(sh, key, cleared) = <<Echo>>
         /\ <<Echo>> \in Seq(Texts)
<1>1. key \in Keys /\ key.type \in EditKeys
  BY DEF EditKey
<1>2. KeyRead(sh, key).mode \in {"prompt", "exited"}
  BY <1>1 DEF KeyRead, EditKeys, ShellState
<1>3. KeyOutput(sh, key, cleared) = <<Echo>>
  <2>1. <<Echo>> \o <<>> = <<Echo>>
    BY ConcatEmptySeq
  <2>2. QED
    BY <1>1, <2>1 DEF KeyOutput, Report, OnlyEdits, EditKeys
<1>4. Echo \in Texts
  BY DEF Echo, Output, Texts
<1>5. QED
  BY <1>2, <1>3, <1>4

LEMMA EditsInit == OnlyEdits /\ Init => OnlyEditsUnderway
<1> SUFFICES ASSUME OnlyEdits, Init PROVE OnlyEditsUnderway
  OBVIOUS
<1>1. input \in Seq(EditKey)
  <2>1. input \in Seq(Keys) /\ \A i \in 1 .. Len(input) : input[i] \in EditKey
    <3>1. input \in Typing /\ input \in Seq(Keys)
      BY SessionAssumption DEF Init
    <3>2. \A i \in 1 .. Len(input) : input[i] \in Keys /\ input[i].type \in EditKeys
      BY <3>1 DEF OnlyEdits
    <3>3. QED
      BY <3>1, <3>2 DEF EditKey
  <2>2. QED
    BY <2>1, SeqOfSome
<1>2. shell.mode # "running"
  BY DEF Init, OnlyEdits, StartingShell
<1>3. \A S : <<>> \in Seq(S)
  OBVIOUS
<1>4. QED
  BY <1>1, <1>2, <1>3 DEF Init, OnlyEditsUnderway, Reading, Processing

LEMMA EditsStdin ==
  ASSUME OnlyEdits, IInv, OnlyEditsUnderway, StdinWork \/ StdinEof \/ AbortStdin
  PROVE  OnlyEditsUnderway'
<1> USE DEF OnlyEditsUnderway
<1>1. UNCHANGED <<ptyTask, ptyOut, tty, shell>>
  BY DEF StdinWork, StdinRead, StdinOnKey, StdinMeasure, StdinSend, StdinSplice, StdinInject,
         StdinForward, StdinTrack, StdinNotify, StdinEof, AbortStdin, channels
<1>2. stdin = [stdin EXCEPT !.pc = stdin.pc]
      /\ stdin \in [pc : {"read", "onKey", "measure", "send", "splice", "inject", "forward",
                      "track", "notify", "ended", "panicked", "aborted"},
                key : Keys \cup {NoKey}, action : PopupAction, line : String]
  BY DEF IInv, TypeOK
<1>3. CASE StdinRead
  <2>1. Head(input) \in EditKey /\ Tail(input) \in Seq(EditKey)
    BY <1>3, HeadTailProperties DEF StdinRead
  <2>2. stdin'.pc = "onKey" /\ stdin'.key = Head(input) /\ input' = Tail(input)
        /\ ptyWrite' = ptyWrite
    BY <1>2, <1>3 DEF StdinRead, channels
  <2>3. QED
    BY <1>1, <2>1, <2>2
<1>4. CASE StdinOnKey
  <2> DEFINE action == OnKey(popup, stdin.key).action
  <2>1. stdin.pc = "onKey" /\ input' = input /\ ptyWrite' = ptyWrite /\ stdin.key \in EditKey
    BY <1>4 DEF StdinOnKey, channels
  <2>2. action.type \in {"Nothing", "ForwardKey", "Show", "Erase", "Panic"}
    BY <2>1, OnKeyOfEdit DEF EditKey, IInv, TypeOK
  <2>3. \/ stdin' = Reading
        \/ stdin' = [stdin EXCEPT !.pc = PcFor(action), !.action = action]
    BY <1>4 DEF StdinOnKey
  <2> HIDE DEF action
  <2>4. CASE stdin' = Reading
    BY <1>1, <2>1, <2>4, BackAtChannel
  <2>5. CASE stdin' = [stdin EXCEPT !.pc = PcFor(action), !.action = action]
    <3>1. stdin'.pc = PcFor(action) /\ stdin'.action = action /\ stdin'.key = stdin.key
      BY <1>2, <2>5
    <3>2. \/ action.type = "ForwardKey" /\ PcFor(action) = "forward"
          \/ action.type \in {"Show", "Erase"} /\ PcFor(action) = "send"
          \/ PcFor(action) \in {"read", "panicked"}
      BY <2>2 DEF PcFor
    <3>3. QED
      BY <1>1, <2>1, <3>1, <3>2
  <2>6. QED
    BY <2>3, <2>4, <2>5
<1>5. CASE StdinSend
  <2>1. stdin' = Reading /\ input' = input /\ ptyWrite' = ptyWrite
    BY <1>5 DEF StdinSend
  <2>2. QED
    BY <1>1, <2>1, BackAtChannel
<1>6. CASE StdinForward
  <2> DEFINE bytes == [type |-> "Key", key |-> stdin.key,
                       cleared |-> stdin.action.type = "EraseAndForward"]
  <2>1. bytes \in EditBytes
    BY <1>6 DEF StdinForward, EditBytes, EditKey, ToShell
  <2>2. ptyWrite' = Append(ptyWrite, bytes) /\ input' = input
        /\ stdin'.pc = "track" /\ stdin'.key = stdin.key /\ stdin.key \in EditKey
    BY <1>2, <1>6 DEF StdinForward, SendToShell
  <2> HIDE DEF bytes
  <2>3. ptyWrite' \in Seq(EditBytes)
    BY <2>1, <2>2
  <2>4. QED
    BY <1>1, <2>2, <2>3
<1>7. CASE StdinTrack
  <2>1. /\ stdin'.pc = "read" \/ (stdin'.pc = "notify" /\ stdin'.key = stdin.key)
        /\ stdin.key \in EditKey /\ input' = input /\ ptyWrite' = ptyWrite
    BY <1>2, <1>7, BackAtChannel DEF StdinTrack, channels
  <2>2. QED
    BY <1>1, <2>1
<1>8. CASE StdinNotify \/ StdinEof \/ AbortStdin
  <2>1. stdin'.pc \in {"read", "ended", "aborted"} \/ stdin' = stdin
    <3>1. [Reading EXCEPT !.pc = "ended"].pc = "ended"
      BY DEF Reading
    <3>2. QED
      BY <1>2, <1>8, <3>1, BackAtChannel DEF StdinNotify, StdinEof, AbortStdin
  <2>2. input' = input /\ ptyWrite' = ptyWrite
    BY <1>8 DEF StdinNotify, StdinEof, AbortStdin, channels
  <2>3. QED
    BY <1>1, <2>1, <2>2
<1>9. ~StdinMeasure /\ ~StdinSplice /\ ~StdinInject
  BY DEF StdinMeasure, StdinSplice, StdinInject
<1>10. QED
  BY <1>3, <1>4, <1>5, <1>6, <1>7, <1>8, <1>9 DEF StdinWork

LEMMA EditsOutput ==
  ASSUME OnlyEdits, IInv, OnlyEditsUnderway, ReaderChunk \/ PtyTask
  PROVE  OnlyEditsUnderway'
<1> USE DEF OnlyEditsUnderway
<1>1. UNCHANGED <<input, stdin, ptyWrite, shell>>
  BY DEF ReaderChunk, PtyTask, PtyRecv, PtyPass, PtyCommandLine, PtyPromptStart, PtyReset,
         PtyErase, PtyPromptEnd, PtyEnd, tasks, channels
<1>2. CASE ReaderChunk
  <2>1. PICK n \in 1 .. Len(tty) : /\ ptyOut' = Append(ptyOut, SubSeq(tty, 1, n))
                                   /\ tty' = SubSeq(tty, n + 1, Len(tty))
    BY <1>2 DEF ReaderChunk
  <2>2. n \in Nat /\ n <= Len(tty)
    OBVIOUS
  <2>3. SubSeq(tty, 1, n) \in Seq(Texts) /\ SubSeq(tty, n + 1, Len(tty)) \in Seq(Texts)
    BY <2>2, SliceTypes DEF UpTo, After
  <2>4. ptyOut' \in Seq(Seq(Texts)) /\ tty' \in Seq(Texts)
    BY <2>1, <2>3
  <2>5. QED
    BY <1>1, <1>2, <2>4 DEF ReaderChunk, tasks
<1>3. CASE PtyRecv
  <2>1. Head(ptyOut) \in Seq(Texts) /\ Tail(ptyOut) \in Seq(Seq(Texts))
    BY <1>3, HeadTailProperties DEF PtyRecv
  <2>2. /\ ptyTask'.pc = "pass" /\ ptyTask'.events = Head(ptyOut)
        /\ ptyOut' = Tail(ptyOut) /\ tty' = tty
    BY <1>3 DEF PtyRecv, IInv, TypeOK
  <2>3. QED
    BY <1>1, <2>1, <2>2
<1>4. CASE PtyPass
  <2>1. ptyTask' = Processing /\ ptyOut' = ptyOut /\ tty' = tty
    BY <1>4, TextsPassed DEF PtyPass
  <2>2. <<>> \in Seq(Texts)
    OBVIOUS
  <2>3. QED
    BY <1>1, <2>1, <2>2, BackAtChannel
<1>5. CASE PtyEnd
  <2>1. ptyTask'.pc = "ended" /\ ptyTask'.events = ptyTask.events /\ ptyOut' = ptyOut
        /\ tty' = tty
    BY <1>5 DEF PtyEnd, IInv, TypeOK, channels
  <2>2. QED
    BY <1>1, <2>1
<1>6. ~PtyCommandLine /\ ~PtyPromptStart /\ ~PtyReset /\ ~PtyErase /\ ~PtyPromptEnd
  BY DEF PtyCommandLine, PtyPromptStart, PtyReset, PtyErase, PtyPromptEnd
<1>7. QED
  BY <1>2, <1>3, <1>4, <1>5, <1>6 DEF PtyTask

LEMMA EditsShell ==
  ASSUME OnlyEdits, IInv, OnlyEditsUnderway, ShellStep \/ ShellExits
  PROVE  OnlyEditsUnderway' /\ ~ShellReadsLine /\ ~ShellPrompts
<1> USE DEF OnlyEditsUnderway
<1>1. UNCHANGED <<input, stdin, ptyTask, ptyOut>>
  BY DEF ShellStep, ShellReadsKey, ShellReadsLine, ShellPrompts, ShellExits, tasks, channels
<1>2. ptyWrite # <<>> => Head(ptyWrite) \in EditBytes /\ Tail(ptyWrite) \in Seq(EditBytes)
  BY HeadTailProperties
<1>3. ~ShellReadsLine /\ ~ShellPrompts
  BY <1>2 DEF ShellReadsLine, ShellPrompts, EditBytes
<1>4. CASE ShellReadsKey
  <2> DEFINE bytes == Head(ptyWrite)
  <2>1. bytes \in EditBytes /\ ptyWrite' = Tail(ptyWrite) /\ shell.mode = "prompt"
        /\ tty' = tty \o KeyOutput(shell, bytes.key, bytes.cleared)
        /\ shell' = KeyRead(shell, bytes.key)
    BY <1>2, <1>4 DEF ShellReadsKey
  <2> HIDE DEF bytes
  <2>2. bytes.key \in EditKey
    BY <2>1 DEF EditBytes
  <2>3. shell'.mode # "running" /\ tty' = tty \o <<Echo>> /\ <<Echo>> \in Seq(Texts)
    <3>1. shell \in ShellState
      BY DEF IInv, TypeOK
    <3>2. QED
      BY <2>1, <2>2, <3>1, ShellOnEdit
  <2>4. tty' \in Seq(Texts)
    BY <2>3, ConcatProperties
  <2>5. ptyWrite' \in Seq(EditBytes)
    BY <1>2, <1>4, <2>1 DEF ShellReadsKey
  <2>6. QED
    BY <1>1, <1>3, <2>3, <2>4, <2>5
<1>5. CASE ShellExits
  BY <1>1, <1>3, <1>5 DEF ShellExits, channels, IInv, TypeOK, ShellState
<1>6. QED
  BY <1>3, <1>4, <1>5 DEF ShellStep

LEMMA EditsNext == OnlyEdits /\ IInv /\ OnlyEditsUnderway /\ [Next]_vars => OnlyEditsUnderway'
<1> SUFFICES ASSUME OnlyEdits, IInv, OnlyEditsUnderway, [Next]_vars PROVE OnlyEditsUnderway'
  OBVIOUS
<1>1. CASE StdinWork \/ StdinEof \/ AbortStdin
  BY <1>1, EditsStdin
<1>2. CASE ReaderChunk \/ PtyTask
  BY <1>2, EditsOutput
<1>3. CASE ShellStep \/ ShellExits
  BY <1>3, EditsShell
<1>4. CASE DebounceTask \/ WriterStep \/ Resize \/ AbortDebounce
  BY <1>4 DEF OnlyEditsUnderway, DebounceTask, DebounceRecv, DebounceDrain, DebounceTimeout,
     DebounceLock, DebounceAnswer, DebounceDispatch, WriterStep, Resize, AbortDebounce,
     tasks, channels
<1>5. CASE AbortPtyWriter
  BY <1>5, EmptySeq DEF OnlyEditsUnderway, AbortPtyWriter
<1>6. CASE AbortSigwinch \/ JoinWriter \/ Rest \/ UNCHANGED vars
  BY <1>6 DEF OnlyEditsUnderway, AbortSigwinch, JoinWriter, Rest, vars, tasks, channels
<1>7. QED
  BY <1>1, <1>2, <1>3, <1>4, <1>5, <1>6 DEF Next, Shutdown

\* The PTY processor ends with the shell, and run() waits for it.
LEMMA EndsNext == IInv /\ EndsWithShell /\ [Next]_vars => EndsWithShell'
<1> SUFFICES ASSUME IInv, EndsWithShell, [Next]_vars PROVE EndsWithShell'
  OBVIOUS
<1> USE DEF EndsWithShell
<1>1. CASE PtyTask
  <2>1. UNCHANGED <<main, shell>>
    BY <1>1 DEF PtyTask, PtyRecv, PtyPass, PtyCommandLine, PtyPromptStart, PtyReset,
         PtyErase, PtyPromptEnd, PtyEnd
  <2>2. ptyTask.pc # "ended"
    BY <1>1 DEF PtyTask, PtyRecv, PtyPass, PtyCommandLine, PtyPromptStart, PtyReset,
         PtyErase, PtyPromptEnd, PtyEnd
  <2>3. ptyTask'.pc = "ended" => PtyEnd
    <3>1. ASSUME NEW rest \in Seq(Output) PROVE WithEvents(rest).pc # "ended"
      BY WithEventsType
    <3>2. ptyTask.events \in Seq(Output)
          /\ (ptyTask.events # <<>> => Tail(ptyTask.events) \in Seq(Output))
      BY HeadTailProperties DEF IInv, TypeOK
    <3>3. ptyTask.pc \in {"events", "reset", "erase"} => ptyTask.events # <<>>
      BY DEF IInv, InHand
    <3>4. CASE PtyPass \/ PtyCommandLine \/ PtyErase \/ PtyPromptEnd
               \/ (PtyReset /\ ~popup.visible)
      BY <3>1, <3>2, <3>3, <3>4 DEF PtyPass, PtyCommandLine, PtyErase, PtyPromptEnd, PtyReset
    <3>5. CASE PtyRecv \/ PtyPromptStart \/ (PtyReset /\ popup.visible)
      BY <3>5 DEF PtyRecv, PtyPromptStart, PtyReset, IInv, TypeOK
    <3>6. QED
      BY <1>1, <3>4, <3>5 DEF PtyTask
  <2>4. QED
    BY <2>1, <2>2, <2>3 DEF PtyEnd
<1>2. CASE ShellStep \/ ShellExits
  <2>1. UNCHANGED <<main, ptyTask>> /\ shell.mode # "exited"
    BY <1>2, ShellAssumption, SessionAssumption
       DEF ShellStep, ShellReadsKey, ShellReadsLine, ShellPrompts, ShellExits, tasks
  <2>2. QED
    BY <2>1
<1>3. CASE StdinWork \/ StdinEof \/ DebounceTask
  BY <1>3 DEF StdinWork, StdinRead, StdinOnKey, StdinMeasure, StdinSend, StdinSplice,
     StdinInject, StdinForward, StdinTrack, StdinNotify, StdinEof, DebounceTask, DebounceRecv,
     DebounceDrain, DebounceTimeout, DebounceLock, DebounceAnswer, DebounceDispatch
<1>4. CASE ReaderChunk \/ WriterStep \/ Resize \/ Rest \/ UNCHANGED vars
  BY <1>4 DEF ReaderChunk, WriterStep, Resize, Rest, vars, tasks
<1>5. CASE Shutdown
  BY <1>5 DEF Shutdown, AbortStdin, AbortSigwinch, AbortDebounce, AbortPtyWriter, JoinWriter
<1>6. QED
  BY <1>1, <1>2, <1>3, <1>4, <1>5 DEF Next

\* The tracker and the shell do the same with a key, whatever the line.
LEMMA SameEdit ==
  ASSUME NEW sh \in ShellState, NEW key \in EditKey, KeyRead(sh, key).mode = "prompt"
  PROVE  [buffer |-> KeyRead(sh, key).line, cursor |-> KeyRead(sh, key).cursor] =
           TrackKey([buffer |-> sh.line, cursor |-> sh.cursor], key)
<1> DEFINE view == [buffer |-> sh.line, cursor |-> sh.cursor]
<1>1. view.buffer = sh.line /\ view.cursor = sh.cursor /\ sh.cursor \in Nat
  BY DEF ShellState
<1>2. key.type \in EditKeys
  BY DEF EditKey
<1>3. sh = [line |-> sh.line, cursor |-> sh.cursor, mode |-> sh.mode]
  BY DEF ShellState
<1>4. CASE key.type = "Char"
  BY <1>3, <1>4 DEF KeyRead, TrackKey
<1>5. CASE key.type = "Backspace"
  <2>1. CASE sh.cursor > 0
    BY <1>1, <1>3, <1>5, <2>1 DEF KeyRead, TrackKey, Backspaced
  <2>2. CASE sh.cursor = 0
    BY <1>1, <1>3, <1>5, <2>2 DEF KeyRead, TrackKey, Backspaced
  <2>3. QED
    BY <1>1, <2>1, <2>2
<1>6. CASE key.type = "ArrowLeft"
  BY <1>1, <1>3, <1>6 DEF KeyRead, TrackKey
<1>7. CASE key.type = "ArrowRight"
  BY <1>1, <1>3, <1>7 DEF KeyRead, TrackKey
<1>8. CASE key.type \in {"ArrowUp", "ArrowDown", "Escape", "CtrlL"}
  BY <1>1, <1>3, <1>8 DEF KeyRead, TrackKey
<1>9. CASE key.type = "CtrlD"
  BY <1>1, <1>3, <1>9 DEF KeyRead, TrackKey
<1>10. QED
  BY <1>2, <1>4, <1>5, <1>6, <1>7, <1>8, <1>9 DEF EditKeys

\* The keys on their way lead from the shell's line to the tracker's.
LEMMA AheadInit == Init => TrackerAhead
<1> SUFFICES ASSUME Init PROVE TrackerAhead
  OBVIOUS
<1> DEFINE lines == [n \in 0 .. 0 |-> EmptyTracker]
<1>1. Len(ptyWrite) = 0
  BY DEF Init
<1>2. EmptyTracker \in Tracker
  BY NoItems DEF EmptyTracker, Tracker
<1>3. ShellView = EmptyTracker
  BY DEF Init, ShellView, StartingShell, EmptyTracker
<1>4. Tracked = EmptyTracker
  BY DEF Init, Tracked, Reading
<1>5. lines \in [0 .. 0 -> Tracker] /\ lines[0] = EmptyTracker
  BY <1>2
<1> HIDE DEF lines
<1>6. Ahead(lines)
  BY <1>1, <1>3, <1>4, <1>5 DEF Ahead
<1>7. QED
  BY <1>1, <1>5, <1>6 DEF TrackerAhead

\* A step that moves neither the shell nor the tracker.
LEMMA AheadQuiet ==
  ASSUME TrackerAhead, UNCHANGED <<shell, ptyWrite>>, Tracked' = Tracked
  PROVE  TrackerAhead'
<1>1. SUFFICES ASSUME shell.mode = "prompt"
               PROVE  \E lines \in [0 .. Len(ptyWrite) -> Tracker] : Ahead(lines)'
  BY DEF TrackerAhead
<1>2. PICK lines \in [0 .. Len(ptyWrite) -> Tracker] : Ahead(lines)
  BY <1>1 DEF TrackerAhead
<1>3. ShellView' = ShellView
  BY DEF ShellView
<1>4. Ahead(lines)'
  BY <1>2, <1>3 DEF Ahead
<1>5. QED
  BY <1>4

\* A key is forwarded: the line will be as the tracker is about to have it.
LEMMA AheadForward ==
  ASSUME IInv, OnlyEditsUnderway, TrackerAhead, StdinForward
  PROVE  TrackerAhead'
<1> DEFINE bytes == [type |-> "Key", key |-> stdin.key,
                     cleared |-> stdin.action.type = "EraseAndForward"]
<1>1. /\ ptyWrite' = Append(ptyWrite, bytes) /\ UNCHANGED <<shell, tracker>>
      /\ stdin'.pc = "track" /\ stdin'.key = stdin.key /\ stdin.pc = "forward"
      /\ ptyWrite \in Seq(EditBytes) /\ stdin.key \in EditKey
  BY DEF StdinForward, SendToShell, OnlyEditsUnderway, IInv, TypeOK
<1>2. SUFFICES ASSUME shell.mode = "prompt"
               PROVE  \E lines \in [0 .. Len(ptyWrite') -> Tracker] : Ahead(lines)'
  BY <1>1 DEF TrackerAhead
<1>3. PICK lines \in [0 .. Len(ptyWrite) -> Tracker] : Ahead(lines)
  BY <1>2 DEF TrackerAhead
<1>4. lines[Len(ptyWrite)] = tracker
  BY <1>1, <1>3 DEF Ahead, Tracked
<1>5. TrackKey(tracker, stdin.key) \in Tracker
  BY <1>1, TrackKeyType DEF IInv, TypeOK, EditKey
<1>6. /\ Len(ptyWrite) \in Nat /\ Len(ptyWrite') = Len(ptyWrite) + 1
      /\ \A n \in 1 .. Len(ptyWrite) : ptyWrite'[n] = ptyWrite[n]
      /\ ptyWrite'[Len(ptyWrite) + 1].key = stdin.key
  <2> HIDE DEF bytes
  <2>1. /\ Len(ptyWrite) \in Nat /\ Len(ptyWrite') = Len(ptyWrite) + 1
        /\ \A n \in 1 .. Len(ptyWrite) : ptyWrite'[n] = ptyWrite[n]
        /\ ptyWrite'[Len(ptyWrite) + 1] = bytes
    BY <1>1
  <2>2. bytes.key = stdin.key
    BY DEF bytes
  <2>3. QED
    BY <2>1, <2>2
<1>7. PICK next \in [0 .. Len(ptyWrite) + 1 -> Tracker] :
        /\ \A n \in 0 .. Len(ptyWrite) : next[n] = lines[n]
        /\ next[Len(ptyWrite) + 1] = TrackKey(tracker, stdin.key)
  <2> DEFINE f == [n \in 0 .. Len(ptyWrite) + 1 |->
                     IF n <= Len(ptyWrite) THEN lines[n] ELSE TrackKey(tracker, stdin.key)]
  <2>1. /\ f \in [0 .. Len(ptyWrite) + 1 -> Tracker]
        /\ \A n \in 0 .. Len(ptyWrite) : f[n] = lines[n]
        /\ f[Len(ptyWrite) + 1] = TrackKey(tracker, stdin.key)
    BY <1>5, <1>6
  <2> HIDE DEF f
  <2>2. QED
    BY <2>1
<1> HIDE DEF bytes
<1>8. next[0] = ShellView'
  BY <1>1, <1>3, <1>6, <1>7 DEF Ahead, ShellView
<1>9. ASSUME NEW n \in 1 .. Len(ptyWrite')
      PROVE  next[n] = TrackKey(next[n - 1], ptyWrite'[n].key)
  <2>1. CASE n \in 1 .. Len(ptyWrite)
    <3>1. n - 1 \in 0 .. Len(ptyWrite) /\ n \in 0 .. Len(ptyWrite)
      BY <1>6, <2>1
    <3>2. lines[n] = TrackKey(lines[n - 1], ptyWrite[n].key)
      BY <1>3, <2>1 DEF Ahead
    <3>3. QED
      BY <1>6, <1>7, <2>1, <3>1, <3>2
  <2>2. CASE n = Len(ptyWrite) + 1
    <3>1. n - 1 = Len(ptyWrite)
      BY <1>6, <2>2
    <3>2. next[n - 1] = tracker
      BY <1>4, <1>6, <1>7, <3>1
    <3>3. QED
      BY <1>6, <1>7, <2>2, <3>2
  <2>3. QED
    BY <1>6, <2>1, <2>2
<1>10. next[Len(ptyWrite')] = Tracked'
  BY <1>1, <1>6, <1>7 DEF Tracked
<1>11. Ahead(next)'
  BY <1>8, <1>9, <1>10 DEF Ahead
<1>12. QED
  BY <1>6, <1>7, <1>11

\* The shell reads a key: it is where the keys on their way said it would be.
LEMMA AheadShell ==
  ASSUME OnlyEdits, IInv, OnlyEditsUnderway, TrackerAhead, ShellReadsKey
  PROVE  TrackerAhead'
<1> DEFINE key == Head(ptyWrite).key
<1>1. /\ ptyWrite # <<>> /\ ptyWrite' = Tail(ptyWrite) /\ shell' = KeyRead(shell, key)
      /\ UNCHANGED <<stdin, tracker>> /\ shell.mode = "prompt"
      /\ ptyWrite \in Seq(EditBytes)
  BY DEF ShellReadsKey, tasks, OnlyEditsUnderway
<1>2. SUFFICES ASSUME shell'.mode = "prompt"
               PROVE  \E lines \in [0 .. Len(ptyWrite') -> Tracker] : Ahead(lines)'
  BY DEF TrackerAhead
<1>3. PICK lines \in [0 .. Len(ptyWrite) -> Tracker] : Ahead(lines)
  BY <1>1 DEF TrackerAhead
<1>4. /\ Len(ptyWrite) \in Nat /\ Len(ptyWrite) > 0
      /\ Len(ptyWrite') = Len(ptyWrite) - 1 /\ ptyWrite[1] = Head(ptyWrite)
      /\ \A n \in 1 .. Len(ptyWrite') : ptyWrite'[n] = ptyWrite[n + 1]
  BY <1>1, HeadTailProperties
<1>5. key \in EditKey
  BY <1>1, HeadTailProperties DEF EditBytes
<1> HIDE DEF key
<1>6. ShellView' = TrackKey(ShellView, key)
  <2>1. shell \in ShellState
    BY DEF IInv, TypeOK
  <2>2. QED
    BY <1>1, <1>2, <1>5, <2>1, SameEdit DEF ShellView
<1>7. lines[1] = ShellView'
  <2>1. lines[1] = TrackKey(lines[1 - 1], ptyWrite[1].key)
    BY <1>3, <1>4 DEF Ahead
  <2>2. lines[0] = ShellView
    BY <1>3 DEF Ahead
  <2>3. QED
    BY <1>4, <1>6, <2>1, <2>2 DEF key
<1>8. PICK next \in [0 .. Len(ptyWrite) - 1 -> Tracker] :
        \A n \in 0 .. Len(ptyWrite) - 1 : next[n] = lines[n + 1]
  <2> DEFINE f == [n \in 0 .. Len(ptyWrite) - 1 |-> lines[n + 1]]
  <2>1. /\ f \in [0 .. Len(ptyWrite) - 1 -> Tracker]
        /\ \A n \in 0 .. Len(ptyWrite) - 1 : f[n] = lines[n + 1]
    BY <1>4
  <2> HIDE DEF f
  <2>2. QED
    BY <2>1
<1>9. next[0] = ShellView'
  BY <1>4, <1>7, <1>8
<1>10. ASSUME NEW n \in 1 .. Len(ptyWrite')
       PROVE  next[n] = TrackKey(next[n - 1], ptyWrite'[n].key)
  <2>1. /\ n + 1 \in 1 .. Len(ptyWrite) /\ (n + 1) - 1 = n /\ (n - 1) + 1 = n
        /\ n \in 0 .. Len(ptyWrite) - 1 /\ n - 1 \in 0 .. Len(ptyWrite) - 1
    BY <1>4
  <2>2. lines[n + 1] = TrackKey(lines[(n + 1) - 1], ptyWrite[n + 1].key)
    BY <1>3, <2>1 DEF Ahead
  <2>3. next[n] = lines[n + 1]
    BY <1>8, <2>1
  <2>4. next[n - 1] = lines[(n - 1) + 1]
    BY <1>8, <2>1
  <2>5. QED
    BY <1>4, <2>1, <2>2, <2>3, <2>4
<1>11. next[Len(ptyWrite')] = Tracked'
  <2>1. next[Len(ptyWrite) - 1] = lines[(Len(ptyWrite) - 1) + 1]
    BY <1>4, <1>8
  <2>2. (Len(ptyWrite) - 1) + 1 = Len(ptyWrite)
    BY <1>4
  <2>3. lines[Len(ptyWrite)] = Tracked /\ Tracked' = Tracked
    BY <1>1, <1>3 DEF Ahead, Tracked
  <2>4. QED
    BY <1>4, <2>1, <2>2, <2>3
<1>12. Ahead(next)'
  BY <1>9, <1>10, <1>11 DEF Ahead
<1>13. QED
  BY <1>4, <1>8, <1>12

LEMMA AheadNext ==
  OnlyEdits /\ IInv /\ OnlyEditsUnderway /\ EndsWithShell /\ TrackerAhead /\ [Next]_vars
    => TrackerAhead'
<1> SUFFICES ASSUME OnlyEdits, IInv, OnlyEditsUnderway, EndsWithShell, TrackerAhead,
                    [Next]_vars
             PROVE  TrackerAhead'
  OBVIOUS
<1>1. CASE StdinForward
  BY <1>1, AheadForward
<1>2. CASE ShellReadsKey
  BY <1>2, AheadShell
<1>3. CASE StdinTrack
  <2>1. stdin'.pc # "track"
    BY <1>3, BackAtChannel DEF StdinTrack, IInv, TypeOK
  <2>2. Tracked' = Tracked /\ UNCHANGED <<shell, ptyWrite>>
    BY <1>3, <2>1 DEF StdinTrack, Tracked, channels
  <2>3. QED
    BY <2>2, AheadQuiet
<1>4. CASE StdinRead \/ StdinOnKey \/ StdinSend \/ StdinNotify \/ StdinEof
  <2>1. stdin.pc # "track" /\ UNCHANGED <<tracker, shell, ptyWrite>>
    BY <1>4 DEF StdinRead, StdinOnKey, StdinSend, StdinNotify, StdinEof, channels
  <2>2. stdin'.pc # "track"
    <3>1. [Reading EXCEPT !.pc = "ended"].pc # "track"
      BY DEF Reading
    <3>2. \A action : PcFor(action) # "track" \/ action.type \notin ActionTypes
      BY DEF PcFor, ActionTypes
    <3>3. OnKey(popup, stdin.key).action.type \in ActionTypes
      BY OnKeyKeeps DEF IInv, TypeOK, PopupAlwaysConsistent, Outcome, PopupAction
    <3>4. CASE StdinOnKey
      <4> DEFINE action == OnKey(popup, stdin.key).action
      <4>1. \/ stdin' = Reading
            \/ stdin' = [stdin EXCEPT !.pc = PcFor(action), !.action = action]
        BY <3>4 DEF StdinOnKey
      <4>2. PcFor(action) # "track"
        BY <3>2, <3>3
      <4> HIDE DEF action
      <4>3. QED
        BY <4>1, <4>2, BackAtChannel DEF IInv, TypeOK
    <3>5. CASE StdinSend
      BY <3>5, BackAtChannel DEF StdinSend, OnlyEditsUnderway
    <3>6. CASE StdinRead \/ StdinNotify \/ StdinEof
      BY <3>1, <3>6, BackAtChannel DEF StdinRead, StdinNotify, StdinEof, IInv, TypeOK
    <3>7. QED
      BY <1>4, <3>4, <3>5, <3>6
  <2>3. QED
    BY <2>1, <2>2, AheadQuiet DEF Tracked
<1>5. ~StdinMeasure /\ ~StdinSplice /\ ~StdinInject
  BY DEF StdinMeasure, StdinSplice, StdinInject, OnlyEditsUnderway
<1>6. CASE PtyTask
  <2>1. ~PtyCommandLine /\ ~PtyPromptStart
    BY DEF PtyCommandLine, PtyPromptStart, OnlyEditsUnderway
  <2>2. UNCHANGED <<stdin, tracker, shell, ptyWrite>>
    BY <1>6, <2>1 DEF PtyTask, PtyRecv, PtyPass, PtyReset, PtyErase, PtyPromptEnd, PtyEnd,
         channels
  <2>3. QED
    BY <2>2, AheadQuiet DEF Tracked
<1>7. CASE ShellStep \/ ShellExits
  <2>1. ~ShellReadsLine /\ ~ShellPrompts
    BY <1>7, EditsShell
  <2>2. CASE ShellExits
    BY <2>2 DEF ShellExits, IInv, TypeOK, ShellState, TrackerAhead
  <2>3. QED
    BY <1>2, <1>7, <2>1, <2>2 DEF ShellStep
<1>8. CASE AbortStdin \/ AbortPtyWriter
  <2>1. shell'.mode = "exited"
    BY <1>8 DEF AbortStdin, AbortPtyWriter, EndsWithShell
  <2>2. QED
    BY <2>1 DEF TrackerAhead
<1>9. CASE \/ DebounceTask \/ ReaderChunk \/ WriterStep \/ Resize \/ AbortSigwinch
           \/ AbortDebounce \/ JoinWriter \/ Rest \/ UNCHANGED vars
  <2>1. UNCHANGED <<stdin, tracker, shell, ptyWrite>>
    BY <1>9 DEF DebounceTask, DebounceRecv, DebounceDrain, DebounceTimeout, DebounceLock,
         DebounceAnswer, DebounceDispatch, ReaderChunk, WriterStep, Resize, AbortSigwinch,
         AbortDebounce, JoinWriter, Rest, vars, tasks, channels
  <2>2. QED
    BY <2>1, AheadQuiet DEF Tracked
<1>10. QED
  BY <1>1, <1>2, <1>3, <1>4, <1>5, <1>6, <1>7, <1>8, <1>9 DEF Next, StdinWork, Shutdown

\* The popup never forgets the line it was asked for.
LEMMA AnsweredSameBuffer ==
  ASSUME NEW p \in Popup, NEW items \in Seq(String)
  PROVE  Answered(p, items).popup.lastBuffer = p.lastBuffer
<1>1. ASSUME NEW q \in Popup, q.lastBuffer = p.lastBuffer
      PROVE  Hide(q).popup.lastBuffer = p.lastBuffer
  BY <1>1 DEF Hide, Result, Closed, Popup
<1>2. ASSUME items # <<>>
      PROVE  RenderInplace(WithItems(p, items), RowsShown(p)).popup.lastBuffer = p.lastBuffer
  <2> DEFINE q == WithItems(p, items)
  <2>1. q \in Popup /\ q.lastBuffer = p.lastBuffer /\ q.items = items
    BY DEF WithItems, Popup
  <2> HIDE DEF q
  <2>2. RenderInplace(q, RowsShown(p)).popup.lastBuffer = p.lastBuffer
    BY <1>2, <2>1 DEF RenderInplace, Result, Popup
  <2>3. QED
    BY <2>2 DEF q
<1>3. QED
  BY <1>1, <1>2 DEF Answered

\* The last of a channel's updates is the one that counts.
LEMMA LatestUpdate ==
  ASSUME NEW ch \in Seq(Tracker)
  PROVE  /\ \A update \in Tracker : Append(ch, update) # <<>>
              /\ Append(ch, update)[Len(Append(ch, update))] = update
         /\ ch # <<>> /\ Tail(ch) # <<>> => Tail(ch)[Len(Tail(ch))] = ch[Len(ch)]
         /\ ch # <<>> /\ Tail(ch) = <<>> => Head(ch) = ch[Len(ch)]
<1>1. \A update \in Tracker : Append(ch, update) # <<>>
              /\ Append(ch, update)[Len(Append(ch, update))] = update
  OBVIOUS
<1>2. ASSUME ch # <<>> /\ Tail(ch) # <<>> PROVE Tail(ch)[Len(Tail(ch))] = ch[Len(ch)]
  BY <1>2
<1>3. ASSUME ch # <<>> /\ Tail(ch) = <<>> PROVE Head(ch) = ch[Len(ch)]
  <2>1. Len(Tail(ch)) = Len(ch) - 1 /\ Len(ch) \in Nat /\ Head(ch) = ch[1]
    BY <1>3, HeadTailProperties
  <2>2. Len(Tail(ch)) = 0
    <3>1. Len(<<>>) = 0
      OBVIOUS
    <3>2. QED
      BY <1>3, <3>1, Zenon
  <2>3. Len(ch) = 1
    BY <2>1, <2>2
  <2>4. QED
    BY <2>1, <2>3
<1>4. QED
  BY <1>1, <1>2, <1>3

LEMMA CatchesUpInit == Init => PopupCatchesUp
BY DEF Init, PopupCatchesUp, LatestBuffer, Waiting, NewPopup, EmptyTracker

\* A key that changes the line is followed by an update; another leaves it.
LEMMA CatchesUpStdin ==
  ASSUME IInv, OnlyEditsUnderway, PopupCatchesUp, StdinWork \/ StdinEof
  PROVE  PopupCatchesUp'
<1>1. UNCHANGED <<main, debounce>>
  BY DEF StdinWork, StdinRead, StdinOnKey, StdinMeasure, StdinSend, StdinSplice, StdinInject,
         StdinForward, StdinTrack, StdinNotify, StdinEof, tasks
<1>2. CASE StdinTrack
  <2>1. SUFFICES ASSUME stdin'.pc # "notify" PROVE tracker'.buffer = tracker.buffer
    BY <1>1, <1>2 DEF StdinTrack, PopupCatchesUp, LatestBuffer, channels
  <2>2. ~TrackKeyChanges(tracker, stdin.key) /\ tracker' = TrackKey(tracker, stdin.key)
    BY <1>2, <2>1 DEF StdinTrack, IInv, TypeOK
  <2>3. tracker \in Tracker
    BY DEF IInv, TypeOK
  <2>4. TrackKey(tracker, stdin.key).buffer = tracker.buffer
    BY <2>2, <2>3 DEF TrackKeyChanges, TrackKey, Backspaced, Tracker
  <2>5. QED
    BY <2>2, <2>4
<1>3. CASE StdinNotify
  <2>1. debounceCh' = Append(debounceCh, tracker) /\ tracker' = tracker
        /\ debounceCh \in Seq(Tracker) /\ tracker \in Tracker
    BY <1>3 DEF StdinNotify, IInv, TypeOK
  <2>2. debounceCh' # <<>> /\ debounceCh'[Len(debounceCh')] = tracker
    BY <2>1, LatestUpdate
  <2>3. LatestBuffer' = tracker'.buffer
    BY <2>1, <2>2 DEF LatestBuffer
  <2>4. QED
    BY <2>3 DEF PopupCatchesUp
<1>4. CASE StdinOnKey
  <2>1. popup'.lastBuffer = popup.lastBuffer
    <3>1. stdin.key \in EditKey
      BY <1>4 DEF StdinOnKey, OnlyEditsUnderway
    <3>2. OnKey(popup, stdin.key).popup.lastBuffer = popup.lastBuffer
      BY <3>1, OnKeyOfEdit DEF EditKey, IInv, TypeOK
    <3>3. QED
      BY <1>4, <3>2 DEF StdinOnKey
  <2>2. stdin.pc # "notify" /\ UNCHANGED <<debounceCh, tracker>>
    BY <1>4 DEF StdinOnKey, channels
  <2>3. QED
    BY <1>1, <2>1, <2>2 DEF PopupCatchesUp, LatestBuffer
<1>5. CASE StdinRead \/ StdinSend \/ StdinForward \/ StdinEof
  <2>1. stdin.pc # "notify" /\ UNCHANGED <<debounceCh, tracker, popup>>
    BY <1>5 DEF StdinRead, StdinSend, StdinForward, StdinEof, channels
  <2>2. QED
    BY <1>1, <2>1 DEF PopupCatchesUp, LatestBuffer
<1>6. ~StdinMeasure /\ ~StdinSplice /\ ~StdinInject
  BY DEF StdinMeasure, StdinSplice, StdinInject, OnlyEditsUnderway
<1>7. QED
  BY <1>2, <1>3, <1>4, <1>5, <1>6 DEF StdinWork

\* The debounce task hands the latest update on to the popup.
LEMMA CatchesUpDebounce ==
  ASSUME IInv, PopupCatchesUp, DebounceTask
  PROVE  PopupCatchesUp'
<1>1. UNCHANGED <<main, stdin, tracker>> /\ debounce.pc \notin {"panicked", "aborted"}
  BY DEF DebounceTask, DebounceRecv, DebounceDrain, DebounceTimeout, DebounceLock,
         DebounceAnswer, DebounceDispatch
<1>2. SUFFICES ASSUME debounce'.pc # "panicked" PROVE LatestBuffer' = LatestBuffer
  BY <1>1 DEF PopupCatchesUp
<1>3. debounceCh \in Seq(Tracker) /\ popup \in Popup
  BY DEF IInv, TypeOK
<1>4. CASE DebounceRecv \/ DebounceDrain
  <2>1. /\ debounceCh # <<>> /\ debounceCh' = Tail(debounceCh) /\ debounce'.pc = "drain"
        /\ debounce'.buffer = Head(debounceCh).buffer
    BY <1>4 DEF DebounceRecv, DebounceDrain, IInv, TypeOK
  <2>2. CASE Tail(debounceCh) = <<>>
    BY <1>3, <2>1, <2>2, LatestUpdate DEF LatestBuffer
  <2>3. CASE Tail(debounceCh) # <<>>
    BY <1>3, <2>1, <2>3, LatestUpdate DEF LatestBuffer
  <2>4. QED
    BY <2>2, <2>3
<1>5. CASE DebounceTimeout
  <2>1. /\ debounceCh = <<>> /\ debounceCh' = <<>> /\ debounce.pc = "drain"
        /\ debounce'.pc = "lock" /\ debounce'.buffer = debounce.buffer
    BY <1>5 DEF DebounceTimeout, IInv, TypeOK, channels
  <2>2. QED
    BY <2>1 DEF LatestBuffer
<1>6. CASE DebounceLock
  <2>1. /\ debounceCh' = debounceCh /\ debounce.pc = "lock" /\ debounce'.pc = "fetch"
        /\ popup'.lastBuffer = debounce.buffer
    BY <1>3, <1>6 DEF DebounceLock, IInv, TypeOK, channels, AskFor, Popup
  <2>2. QED
    BY <2>1 DEF LatestBuffer
<1>7. CASE DebounceAnswer \/ DebounceDispatch
  <2>1. popup'.lastBuffer = popup.lastBuffer
    <3>1. CASE DebounceAnswer
      <4>1. PICK items \in Answers : popup' = Answered(popup, items).popup
        BY <3>1 DEF DebounceAnswer
      <4>2. items \in Seq(String)
        BY NoItems, SessionAssumption DEF Answers
      <4>3. QED
        BY <1>3, <4>1, <4>2, AnsweredSameBuffer
    <3>2. CASE DebounceDispatch
      BY <3>2 DEF DebounceDispatch
    <3>3. QED
      BY <1>7, <3>1, <3>2
  <2>2. debounce.pc \in {"fetch", "dispatch"} /\ debounceCh' = debounceCh
    BY <1>7 DEF DebounceAnswer, DebounceDispatch, channels
  <2>3. debounce'.pc \in {"recv", "dispatch"}
    <3>1. CASE DebounceAnswer
      <4>1. PICK items \in Answers :
              \/ debounce' = Waiting
              \/ debounce' = [Waiting EXCEPT !.pc = "panicked"]
              \/ debounce' = [debounce EXCEPT !.pc = "dispatch",
                                              !.action = Answered(popup, items).action]
        BY <3>1 DEF DebounceAnswer
      <4>2. [Waiting EXCEPT !.pc = "panicked"].pc = "panicked"
        BY DEF Waiting
      <4>3. QED
        BY <1>2, <4>1, <4>2, BackAtChannel DEF IInv, TypeOK
    <3>2. CASE DebounceDispatch
      BY <3>2, BackAtChannel DEF DebounceDispatch
    <3>3. QED
      BY <1>7, <3>1, <3>2
  <2>4. QED
    BY <2>1, <2>2, <2>3 DEF LatestBuffer
<1>8. QED
  BY <1>4, <1>5, <1>6, <1>7 DEF DebounceTask

LEMMA CatchesUpNext ==
  OnlyEdits /\ IInv /\ OnlyEditsUnderway /\ PopupCatchesUp /\ [Next]_vars => PopupCatchesUp'
<1> SUFFICES ASSUME OnlyEdits, IInv, OnlyEditsUnderway, PopupCatchesUp, [Next]_vars
             PROVE  PopupCatchesUp'
  OBVIOUS
<1>1. CASE StdinWork \/ StdinEof
  BY <1>1, CatchesUpStdin
<1>2. CASE DebounceTask
  BY <1>2, CatchesUpDebounce
<1>3. CASE PtyTask \/ ReaderChunk \/ WriterStep
  <2>1. ~PtyCommandLine /\ ~PtyPromptStart /\ ~PtyReset
    BY DEF PtyCommandLine, PtyPromptStart, PtyReset, OnlyEditsUnderway
  <2>2. UNCHANGED <<main, stdin, debounce, debounceCh, popup, tracker>>
    BY <1>3, <2>1 DEF PtyTask, PtyRecv, PtyPass, PtyErase, PtyPromptEnd, PtyEnd, ReaderChunk,
         WriterStep, tasks, channels
  <2>3. QED
    BY <2>2 DEF PopupCatchesUp, LatestBuffer
<1>4. CASE Resize
  <2>1. popup'.lastBuffer = popup.lastBuffer
    BY <1>4 DEF Resize, IInv, TypeOK, Popup
  <2>2. UNCHANGED <<main, stdin, debounce, debounceCh, tracker>>
    BY <1>4 DEF Resize, tasks, channels
  <2>3. QED
    BY <2>1, <2>2 DEF PopupCatchesUp, LatestBuffer
<1>5. CASE ShellStep \/ ShellExits \/ Rest \/ UNCHANGED vars
  <2>1. UNCHANGED <<main, stdin, debounce, debounceCh, popup, tracker>>
    BY <1>5 DEF ShellStep, ShellReadsKey, ShellReadsLine, ShellPrompts, ShellExits, Rest, vars,
         tasks, channels
  <2>2. QED
    BY <2>1 DEF PopupCatchesUp, LatestBuffer
<1>6. CASE Shutdown
  <2>1. main' # "running"
    BY <1>6 DEF Shutdown, AbortStdin, AbortSigwinch, AbortDebounce, AbortPtyWriter, JoinWriter
  <2>2. QED
    BY <2>1 DEF PopupCatchesUp
<1>7. QED
  BY <1>1, <1>2, <1>3, <1>4, <1>5, <1>6 DEF Next

LEMMA LineInit == OnlyEdits /\ Init => LineInv
<1>1. Init => EndsWithShell
  BY DEF Init, EndsWithShell, Processing
<1>2. QED
  BY <1>1, EditsInit, AheadInit, CatchesUpInit DEF LineInv

LEMMA LineNext == OnlyEdits /\ IInv /\ LineInv /\ [Next]_vars => LineInv'
BY EditsNext, EndsNext, AheadNext, CatchesUpNext DEF LineInv

\* At rest, nothing is on its way.
LEMMA LineAtRest ==
  ASSUME IInv, LineInv, Idle
  PROVE  /\ tracker.buffer = shell.line /\ tracker.cursor = shell.cursor
         /\ popup.lastBuffer = shell.line
<1>1. /\ shell.mode = "prompt" /\ ptyWrite = <<>> /\ debounceCh = <<>> /\ main = "running"
      /\ debounce.pc = "recv" /\ stdin.pc \in {"read", "ended", "panicked"}
  BY DEF Idle, Stopped
<1>2. PICK lines \in [0 .. Len(ptyWrite) -> Tracker] : Ahead(lines)
  BY <1>1 DEF LineInv, TrackerAhead
<1>3. Len(ptyWrite) = 0
  BY <1>1
<1>4. tracker = ShellView
  BY <1>1, <1>2, <1>3 DEF Ahead, Tracked
<1>5. popup.lastBuffer = tracker.buffer
  BY <1>1 DEF LineInv, PopupCatchesUp, LatestBuffer
<1>6. QED
  BY <1>4, <1>5 DEF ShellView

(* While one line is edited in a shell that does not report it, the        *)
(* tracker holds the shell's line and cursor at rest, whatever is typed,   *)
(* however fast, and however the echo comes back (event_loop.rs:380-391).  *)
THEOREM TrackerFollowsEdits == OnlyEdits => (Spec => []TrackerFollowsLine)
<1> SUFFICES ASSUME OnlyEdits PROVE Spec => []TrackerFollowsLine
  OBVIOUS
<1>1. Init => LineInv
  BY LineInit
<1>2. IInv /\ LineInv /\ [Next]_vars => LineInv'
  BY LineNext
<1>3. IInv /\ LineInv => TrackerFollowsLine
  BY LineAtRest DEF TrackerFollowsLine
<1>4. QED
  BY <1>1, <1>2, <1>3, SpecInv, PTL DEF Spec

(* And a popup that is shown at rest belongs to that line: no burst of     *)
(* keys, late answer or full channel leaves it with an earlier one         *)
(* (event_loop.rs:180-206).                                                *)
THEOREM PopupFollowsEdits == OnlyEdits => (Spec => []PopupFollowsLine)
<1> SUFFICES ASSUME OnlyEdits PROVE Spec => []PopupFollowsLine
  OBVIOUS
<1>1. Init => LineInv
  BY LineInit
<1>2. IInv /\ LineInv /\ [Next]_vars => LineInv'
  BY LineNext
<1>3. IInv /\ LineInv => PopupFollowsLine
  BY LineAtRest DEF PopupFollowsLine
<1>4. QED
  BY <1>1, <1>2, <1>3, SpecInv, PTL DEF Spec

-----------------------------------------------------------------------------
(* The screen.  While the popup is drawn by the debounce task only, the    *)
(* rows on the screen follow it, through whatever is queued.               *)

PopupKeys == {"ArrowUp", "ArrowDown", "Escape"}

\* The keys typed are not those with which the stdin task draws.
OnlyTyping ==
  OnlyEdits /\ \A keys \in Typing : \A i \in DOMAIN keys : keys[i].type \notin PopupKeys

TypingKey == {key \in EditKey : key.type \notin PopupKeys}

NothingToDraw ==
  /\ input \in Seq(TypingKey)
  /\ stdin.pc = "onKey" => stdin.key \in TypingKey
  /\ stdin.pc # "send"

\* What the debounce task sends under its guard.
Dispatched ==
  IF debounce.action.type = "Show" THEN ShowPopup(debounce.action)
  ELSE ErasePopup(debounce.action.lines, "hide")

\* What is queued, and what the debounce task is about to send, draws the popup.
ScreenCatchesUp ==
  main = "running" =>
    /\ debounce.pc \notin {"panicked", "aborted"}
    /\ (IF debounce.pc = "dispatch" THEN Written(ScreenAfter(screen, writeCh), Dispatched)
        ELSE ScreenAfter(screen, writeCh)) = PopupRows(popup)

ScreenInv == NothingToDraw /\ ScreenCatchesUp

Rows == SUBSET (1 .. MaxVisible + 2)

\* The writes whose rows fit on the screen.
Drawing == {write \in TerminalWrite : write.type = "ShowPopup" => write.lines <= MaxVisible}

LEMMA QueueDraws ==
  ASSUME TypeOK, SelectionIsDrawn
  PROVE  screen \in Rows /\ writeCh \in Seq(Drawing)
<1>1. writeCh \in Seq(TerminalWrite) /\ \A i \in 1 .. Len(writeCh) : writeCh[i] \in Drawing
  BY DEF TypeOK, SelectionIsDrawn, Drawing
<1>2. QED
  BY <1>1, SeqOfSome DEF TypeOK, Rows

LEMMA DrawingType ==
  ASSUME NEW rows \in Rows, NEW write \in Drawing
  PROVE  Written(rows, write) \in Rows
BY WrittenType DEF Rows, Drawing

\* The screen while the queue is written.
LEMMA ScreenRuns ==
  ASSUME NEW rows \in Rows, NEW writes \in Seq(Drawing)
  PROVE  /\ ScreenRun(rows, writes) \in [0 .. Len(writes) -> Rows]
         /\ ScreenRun(rows, writes)[0] = rows
         /\ \A n \in Nat : n + 1 <= Len(writes) =>
              ScreenRun(rows, writes)[n + 1] = Written(ScreenRun(rows, writes)[n], writes[n + 1])
<1> DEFINE N == Len(writes)
           Def(g) == [n \in 0 .. N |-> IF n = 0 THEN rows ELSE Written(g[n - 1], writes[n])]
           step == [n \in 1 .. N |-> [v \in Rows |-> Written(v, writes[n])]]
<1>1. N \in Nat /\ \A n \in 1 .. N : writes[n] \in Drawing
  OBVIOUS
<1> HIDE DEF N
<1>2. step \in [1 .. N -> [Rows -> Rows]] /\ \A n \in 1 .. N, v \in Rows :
        step[n][v] = Written(v, writes[n])
  BY <1>1, DrawingType
<1> HIDE DEF step
<1>3. PICK f \in [0 .. N -> Rows] : IsRun(f, rows, step, N)
  BY <1>1, <1>2, StepsExist
<1>4. f = Def(f)
  <2>1. f[0] = rows
    BY <1>3 DEF IsRun
  <2>2. ASSUME NEW n \in 1 .. N PROVE f[n] = Written(f[n - 1], writes[n])
    <3>1. f[n - 1] \in Rows
      BY <1>1
    <3>2. f[n] = step[n][f[n - 1]]
      BY <1>3 DEF IsRun
    <3>3. QED
      BY <1>2, <3>1, <3>2
  <2>3. QED
    BY <1>1, <2>1, <2>2
<1>5. ScreenRun(rows, writes) = CHOOSE g : g = Def(g)
  BY DEF ScreenRun, N
<1> DEFINE run == ScreenRun(rows, writes)
<1>6. run = Def(run)
  <2> HIDE DEF Def
  <2>1. QED
    BY <1>4, <1>5
<1> HIDE DEF run
<1>7. run[0] = rows
  BY <1>1, <1>6
<1>8. ASSUME NEW n \in Nat, n + 1 <= N PROVE run[n + 1] = Written(run[n], writes[n + 1])
  <2>1. n + 1 \in 0 .. N /\ n + 1 # 0 /\ (n + 1) - 1 = n
    BY <1>1, <1>8
  <2>2. QED
    BY <1>6, <2>1
<1>9. \A n \in Nat : n <= N => run[n] \in Rows
  <2> DEFINE S == {n \in Nat : n <= N => run[n] \in Rows}
  <2>1. 0 \in S
    BY <1>7
  <2>2. ASSUME NEW n \in Nat, n \in S PROVE n + 1 \in S
    <3>1. ASSUME n + 1 <= N PROVE run[n + 1] \in Rows
      <4>1. writes[n + 1] \in Drawing /\ run[n] \in Rows
        BY <1>1, <2>2, <3>1
      <4>2. QED
        BY <1>8, <3>1, <4>1, DrawingType
    <3>2. QED
      BY <3>1
  <2>3. \A n \in Nat : n \in S
    BY <2>1, <2>2, Induction
  <2>4. QED
    BY <2>3
<1>10. run \in [0 .. N -> Rows]
  <2>1. run = [n \in 0 .. N |-> run[n]]
    BY <1>6
  <2>2. QED
    BY <1>1, <1>9, <2>1
<1>11. QED
  BY <1>7, <1>8, <1>10 DEF run, N

\* One more write at the end of the queue, and one less at its head.
LEMMA ScreenAppend ==
  ASSUME NEW rows \in Rows, NEW writes \in Seq(Drawing), NEW write \in Drawing
  PROVE  ScreenAfter(rows, Append(writes, write)) = Written(ScreenAfter(rows, writes), write)
<1> DEFINE more == Append(writes, write)
           S == {n \in Nat : n <= Len(writes) =>
                               ScreenRun(rows, more)[n] = ScreenRun(rows, writes)[n]}
<1>1. /\ more \in Seq(Drawing) /\ Len(more) = Len(writes) + 1 /\ Len(writes) \in Nat
      /\ \A n \in 1 .. Len(writes) : more[n] = writes[n]
      /\ more[Len(writes) + 1] = write
  OBVIOUS
<1> HIDE DEF more
<1>2. 0 \in S
  BY <1>1, ScreenRuns
<1>3. ASSUME NEW n \in Nat, n \in S PROVE n + 1 \in S
  <2>1. SUFFICES ASSUME n + 1 <= Len(writes)
                 PROVE  ScreenRun(rows, more)[n + 1] = ScreenRun(rows, writes)[n + 1]
    OBVIOUS
  <2>2. n + 1 <= Len(more) /\ more[n + 1] = writes[n + 1] /\ n <= Len(writes)
    BY <1>1, <2>1
  <2>3. ScreenRun(rows, more)[n + 1] = Written(ScreenRun(rows, more)[n], more[n + 1])
    BY <1>1, <2>2, ScreenRuns
  <2>4. ScreenRun(rows, writes)[n + 1] = Written(ScreenRun(rows, writes)[n], writes[n + 1])
    BY <2>1, ScreenRuns
  <2>5. ScreenRun(rows, more)[n] = ScreenRun(rows, writes)[n]
    BY <1>3, <2>2
  <2>6. QED
    BY <2>2, <2>3, <2>4, <2>5
<1>4. Len(writes) \in S
  <2> HIDE DEF S
  <2>1. QED
    BY <1>1, <1>2, <1>3, Induction
<1>5. ScreenRun(rows, more)[Len(writes)] = ScreenAfter(rows, writes)
  BY <1>1, <1>4 DEF ScreenAfter
<1>6. ScreenRun(rows, more)[Len(writes) + 1] =
        Written(ScreenRun(rows, more)[Len(writes)], more[Len(writes) + 1])
  BY <1>1, ScreenRuns
<1>7. QED
  BY <1>1, <1>5, <1>6 DEF ScreenAfter, more

LEMMA ScreenTail ==
  ASSUME NEW rows \in Rows, NEW writes \in Seq(Drawing), writes # <<>>
  PROVE  ScreenAfter(Written(rows, Head(writes)), Tail(writes)) = ScreenAfter(rows, writes)
<1> DEFINE rest == Tail(writes)
           first == Written(rows, Head(writes))
           S == {n \in Nat : n <= Len(rest) =>
                               ScreenRun(first, rest)[n] = ScreenRun(rows, writes)[n + 1]}
<1>1. /\ rest \in Seq(Drawing) /\ Len(rest) = Len(writes) - 1 /\ Len(writes) \in Nat
      /\ Len(writes) > 0 /\ Head(writes) = writes[1] /\ Head(writes) \in Drawing
      /\ \A n \in 1 .. Len(rest) : rest[n] = writes[n + 1]
  BY HeadTailProperties
<1>2. first \in Rows
  BY <1>1, DrawingType
<1> HIDE DEF rest
<1>3. 0 \in S
  <2>1. ScreenRun(rows, writes)[0 + 1] = Written(ScreenRun(rows, writes)[0], writes[0 + 1])
    BY <1>1, ScreenRuns
  <2>2. ScreenRun(rows, writes)[0] = rows
    BY ScreenRuns
  <2>3. ScreenRun(rows, writes)[0 + 1] = first
    BY <1>1, <2>1, <2>2
  <2> HIDE DEF first
  <2>4. ScreenRun(first, rest)[0] = first
    BY <1>1, <1>2, ScreenRuns
  <2>5. QED
    BY <2>3, <2>4
<1> HIDE DEF first
<1>4. ASSUME NEW n \in Nat, n \in S PROVE n + 1 \in S
  <2>1. SUFFICES ASSUME n + 1 <= Len(rest)
                 PROVE  ScreenRun(first, rest)[n + 1] = ScreenRun(rows, writes)[(n + 1) + 1]
    OBVIOUS
  <2>2. (n + 1) + 1 <= Len(writes) /\ rest[n + 1] = writes[(n + 1) + 1] /\ n <= Len(rest)
    BY <1>1, <2>1
  <2>3. ScreenRun(first, rest)[n + 1] = Written(ScreenRun(first, rest)[n], rest[n + 1])
    BY <1>1, <1>2, <2>1, ScreenRuns
  <2>4. ScreenRun(rows, writes)[(n + 1) + 1] =
          Written(ScreenRun(rows, writes)[n + 1], writes[(n + 1) + 1])
    BY <2>2, ScreenRuns
  <2>5. ScreenRun(first, rest)[n] = ScreenRun(rows, writes)[n + 1]
    BY <1>4, <2>2
  <2>6. QED
    BY <2>2, <2>3, <2>4, <2>5
<1>5. Len(rest) \in S
  <2>1. Len(rest) \in Nat
    BY <1>1
  <2> HIDE DEF S
  <2>2. QED
    BY <1>3, <1>4, <2>1, Induction
<1>6. Len(rest) + 1 = Len(writes) /\ Len(rest) \in Nat
  BY <1>1
<1>7. ScreenRun(first, rest)[Len(rest)] = ScreenRun(rows, writes)[Len(writes)]
  BY <1>5, <1>6
<1>8. QED
  BY <1>7 DEF ScreenAfter, rest, first

LEMMA ScreenEmpty ==
  ASSUME NEW rows \in Rows
  PROVE  ScreenAfter(rows, <<>>) = rows
<1>1. <<>> \in Seq(Drawing) /\ Len(<<>>) = 0
  OBVIOUS
<1>2. QED
  BY <1>1, ScreenRuns DEF ScreenAfter

LEMMA ScreenAfterType ==
  ASSUME NEW rows \in Rows, NEW writes \in Seq(Drawing)
  PROVE  ScreenAfter(rows, writes) \in Rows
<1>1. Len(writes) \in 0 .. Len(writes)
  OBVIOUS
<1>2. QED
  BY <1>1, ScreenRuns DEF ScreenAfter

\* What a chunk of text writes leaves the rows where they are.
LEMMA TextMovesNothing ==
  ASSUME NEW chunk \in Seq(Texts), NEW rows \in Rows
  PROVE  Passthrough(chunk) \in Drawing /\ Written(rows, Passthrough(chunk)) = rows
<1>1. chunk \in Seq(Output) /\ \A i \in 1 .. Len(chunk) : chunk[i].type = "Text"
  BY DEF Texts
<1>2. Newlines(chunk) = {}
  BY <1>1 DEF Newlines
<1>3. Passthrough(chunk).newlines = 0 /\ Passthrough(chunk).type = "Passthrough"
  BY <1>2, FS_EmptySet DEF Passthrough
<1>4. Passthrough(chunk) \in Drawing
  BY <1>1, <1>3, PassthroughType DEF Drawing
<1>5. \A row \in 1 .. MaxVisible + 2 : row + 0 = row
  BY PopupAssumption
<1>6. Written(rows, Passthrough(chunk)) = {row \in 1 .. MaxVisible + 2 : row + 0 \in rows}
  BY <1>3 DEF Written
<1>7. QED
  BY <1>4, <1>5, <1>6 DEF Rows

\* The popup leaves these keys to the shell.
LEMMA OnKeyOfTyping ==
  ASSUME NEW p, NEW key \in TypingKey
  PROVE  OnKey(p, key) = Result(p, Action("ForwardKey"))
BY DEF OnKey, TypingKey, EditKey, EditKeys, PopupKeys

LEMMA ScreenInit == OnlyTyping /\ Init => ScreenInv
<1> SUFFICES ASSUME OnlyTyping, Init PROVE ScreenInv
  OBVIOUS
<1>1. input \in Seq(TypingKey)
  <2>1. input \in Seq(EditKey)
    BY EditsInit DEF OnlyTyping, OnlyEditsUnderway
  <2>2. \A i \in 1 .. Len(input) : input[i] \in TypingKey
    <3>1. input \in Typing /\ DOMAIN input = 1 .. Len(input)
      BY <2>1 DEF Init
    <3>2. \A i \in 1 .. Len(input) : input[i].type \notin PopupKeys
      BY <3>1 DEF OnlyTyping
    <3>3. QED
      BY <2>1, <3>2 DEF TypingKey
  <2>3. QED
    BY <2>1, <2>2, SeqOfSome
<1>2. NothingToDraw
  BY <1>1 DEF Init, NothingToDraw, Reading
<1>3. ScreenAfter({}, <<>>) = {}
  BY ScreenEmpty DEF Rows
<1>4. screen = {} /\ writeCh = <<>> /\ debounce.pc = "recv" /\ ~popup.visible
  BY DEF Init, Waiting, NewPopup
<1>5. ScreenCatchesUp
  BY <1>3, <1>4 DEF ScreenCatchesUp, PopupRows
<1>6. QED
  BY <1>2, <1>5 DEF ScreenInv

LEMMA NothingToDrawNext ==
  IInv /\ OnlyEditsUnderway /\ NothingToDraw /\ [Next]_vars => NothingToDraw'
<1> SUFFICES ASSUME IInv, OnlyEditsUnderway, NothingToDraw, [Next]_vars PROVE NothingToDraw'
  OBVIOUS
<1> USE DEF NothingToDraw
<1>1. stdin \in [pc : {"read", "onKey", "measure", "send", "splice", "inject", "forward",
                      "track", "notify", "ended", "panicked", "aborted"},
                key : Keys \cup {NoKey}, action : PopupAction, line : String]
  BY DEF IInv, TypeOK
<1>2. CASE StdinRead
  <2>1. Head(input) \in TypingKey /\ Tail(input) \in Seq(TypingKey)
    BY <1>2, HeadTailProperties DEF StdinRead
  <2>2. stdin'.pc = "onKey" /\ stdin'.key = Head(input) /\ input' = Tail(input)
    BY <1>1, <1>2 DEF StdinRead
  <2>3. QED
    BY <2>1, <2>2
<1>3. CASE StdinOnKey
  <2>1. stdin.pc = "onKey" /\ input' = input /\ stdin.key \in TypingKey
    BY <1>3 DEF StdinOnKey
  <2>2. OnKey(popup, stdin.key) = Result(popup, Action("ForwardKey"))
    BY <2>1, OnKeyOfTyping
  <2>3. stdin'.pc = "forward"
    BY <1>1, <1>3, <2>2 DEF StdinOnKey, Result, Action, PcFor
  <2>4. QED
    BY <2>1, <2>3
<1>4. ~StdinMeasure
  BY DEF StdinMeasure, OnlyEditsUnderway
<1>5. CASE StdinSend \/ StdinSplice \/ StdinInject \/ StdinForward \/ StdinTrack \/ StdinNotify
           \/ StdinEof \/ AbortStdin
  <2>1. [Reading EXCEPT !.pc = "ended"].pc = "ended"
    BY DEF Reading
  <2>2. input' = input /\ (stdin' = stdin \/ stdin'.pc \notin {"onKey", "send"})
    BY <1>1, <1>5, <2>1, BackAtChannel
       DEF StdinSend, StdinSplice, StdinInject, StdinForward, StdinTrack, StdinNotify, StdinEof,
           AbortStdin
  <2>3. QED
    BY <2>2
<1>6. CASE DebounceTask \/ ReaderChunk \/ PtyTask \/ WriterStep \/ Resize \/ ShellStep
           \/ ShellExits \/ AbortSigwinch \/ AbortDebounce \/ AbortPtyWriter \/ JoinWriter \/ Rest
           \/ UNCHANGED vars
  <2>1. UNCHANGED <<input, stdin>>
    BY <1>6 DEF DebounceTask, DebounceRecv, DebounceDrain, DebounceTimeout, DebounceLock,
       DebounceAnswer, DebounceDispatch, ReaderChunk, PtyTask, PtyRecv, PtyPass, PtyCommandLine,
       PtyPromptStart, PtyReset, PtyErase, PtyPromptEnd, PtyEnd, WriterStep, Resize, ShellStep,
       ShellReadsKey, ShellReadsLine, ShellPrompts, ShellExits, AbortSigwinch, AbortDebounce,
       AbortPtyWriter, JoinWriter, Rest, vars, tasks
  <2>2. QED
    BY <2>1
<1>7. QED
  BY <1>2, <1>3, <1>4, <1>5, <1>6 DEF Next, StdinWork, Shutdown

\* A step that draws nothing and leaves the popup's rows alone.
LEMMA ScreenQuiet ==
  ASSUME ScreenCatchesUp, UNCHANGED <<screen, writeCh>>, main' = "running" => main = "running",
         popup'.visible = popup.visible, popup'.popupLines = popup.popupLines,
         \/ UNCHANGED debounce
         \/ debounce.pc # "dispatch" /\ debounce'.pc \notin {"dispatch", "panicked", "aborted"}
  PROVE  ScreenCatchesUp'
BY DEF ScreenCatchesUp, Dispatched, PopupRows

\* What is dispatched draws the popup over the rows of the one before.
LEMMA AnsweredDraws ==
  ASSUME NEW p \in Popup, PopupConsistent(p), NEW items \in Seq(String),
         items # <<>> => ~TooNarrow(p.terminalCols)
  PROVE  LET result == Answered(p, items)
         IN  \/ result = Result(p, Action("Nothing"))
             \/ /\ result.action.type = "Show"
                /\ Written(PopupRows(p), ShowPopup(result.action)) = PopupRows(result.popup)
             \/ /\ result.action.type = "Erase"
                /\ Written(PopupRows(p), ErasePopup(result.action.lines, "hide"))
                     = PopupRows(result.popup)
<1>1. CASE items = <<>> /\ ~p.visible
  BY <1>1 DEF Answered, Hide
<1>2. CASE items = <<>> /\ p.visible
  <2> DEFINE q == [Closed(p) EXCEPT !.selected = 0]
  <2>1. Answered(p, items) = Result(q, Erase(p.popupLines))
    BY <1>2 DEF Answered, Hide
  <2>2. ~q.visible
    BY DEF Closed, Popup
  <2> HIDE DEF q
  <2>3. Erase(p.popupLines).type = "Erase" /\ Erase(p.popupLines).lines = p.popupLines
    BY DEF Erase, Action
  <2>4. Written(PopupRows(p), ErasePopup(p.popupLines, "hide")) = {}
    BY <1>2 DEF Written, ErasePopup, PopupRows
  <2>5. Answered(p, items).popup = q /\ Answered(p, items).action = Erase(p.popupLines)
    BY <2>1 DEF Result
  <2>6. PopupRows(q) = {}
    BY <2>2 DEF PopupRows
  <2>7. QED
    BY <2>3, <2>4, <2>5, <2>6
<1>3. CASE items # <<>>
  <2> DEFINE q == WithItems(p, items)
             drawn == [q EXCEPT !.popupLines = WindowLength(q)]
             show == Show(WindowLength(q), RowsShown(p), q.selected - WindowStart(q))
  <2>1. q.items = items /\ q.terminalCols = p.terminalCols
    BY DEF WithItems, Popup
  <2>2. drawn.visible /\ drawn.popupLines = WindowLength(q)
    BY DEF WithItems, Popup
  <2>3. Answered(p, items) = Result(drawn, show)
    <3> HIDE DEF q
    <3>1. Answered(p, items) = RenderInplace(q, RowsShown(p))
      BY <1>3 DEF Answered, q
    <3>2. QED
      BY <1>3, <2>1, <3>1 DEF RenderInplace
  <2>4. show.type = "Show" /\ show.lines = WindowLength(q) /\ show.prev = RowsShown(p)
    BY DEF Show, Action
  <2> HIDE DEF q, drawn, show
  <2>5. p.visible => RowsShown(p) = p.popupLines /\ p.popupLines # 0
    <3>1. p.visible => WindowLength(p) # 0
      BY WindowBounds DEF PopupConsistent
    <3>2. QED
      BY <3>1 DEF RowsShown, PopupConsistent
  <2>6. Written(PopupRows(p), ShowPopup(show)) = 1 .. WindowLength(q) + 2
    <3> DEFINE write == ShowPopup(show)
    <3>1. write.type = "ShowPopup" /\ write.lines = WindowLength(q) /\ write.prev = RowsShown(p)
      BY <2>4 DEF ShowPopup
    <3> HIDE DEF write
    <3>2. Written(PopupRows(p), write) =
            (PopupRows(p) \ (IF RowsShown(p) = 0 THEN {} ELSE 1 .. RowsShown(p) + 2))
              \cup 1 .. WindowLength(q) + 2
      BY <3>1 DEF Written
    <3>3. PopupRows(p) \ (IF RowsShown(p) = 0 THEN {} ELSE 1 .. RowsShown(p) + 2) = {}
      <4>1. CASE p.visible
        BY <2>5, <4>1 DEF PopupRows
      <4>2. CASE ~p.visible
        BY <4>2 DEF PopupRows
      <4>3. QED
        BY <4>1, <4>2
    <3>4. QED
      BY <3>2, <3>3 DEF write
  <2>7. QED
    BY <2>2, <2>3, <2>4, <2>6 DEF Result, PopupRows
<1>4. QED
  BY <1>1, <1>2, <1>3

LEMMA ScreenAnswer == IInv /\ ScreenCatchesUp /\ DebounceAnswer => ScreenCatchesUp'
<1> SUFFICES ASSUME IInv, ScreenCatchesUp, DebounceAnswer PROVE ScreenCatchesUp'
  OBVIOUS
<1>1. PICK items \in Answers :
        LET result == Answered(popup, items)
        IN  /\ popup' = result.popup
            /\ debounce' = CASE result.action.type = "Nothing" -> Waiting
                             [] result.action.type = "Panic" ->
                                  [Waiting EXCEPT !.pc = "panicked"]
                             [] OTHER -> [debounce EXCEPT !.pc = "dispatch",
                                                          !.action = result.action]
  BY DEF DebounceAnswer
<1> DEFINE result == Answered(popup, items)
<1>2. UNCHANGED <<screen, writeCh, main>> /\ debounce.pc = "fetch"
  BY DEF DebounceAnswer, channels
<1>3. items \in Seq(String) /\ (items # <<>> => ~TooNarrow(popup.terminalCols))
  BY NoItems, SessionAssumption DEF Answers
<1>4. popup \in Popup /\ PopupConsistent(popup)
  BY DEF IInv, TypeOK, PopupAlwaysConsistent
<1>5. \/ result = Result(popup, Action("Nothing"))
      \/ /\ result.action.type = "Show"
         /\ Written(PopupRows(popup), ShowPopup(result.action)) = PopupRows(result.popup)
      \/ /\ result.action.type = "Erase"
         /\ Written(PopupRows(popup), ErasePopup(result.action.lines, "hide"))
              = PopupRows(result.popup)
  BY <1>3, <1>4, AnsweredDraws
<1>6. popup' = result.popup
      /\ debounce' = CASE result.action.type = "Nothing" -> Waiting
                       [] result.action.type = "Panic" -> [Waiting EXCEPT !.pc = "panicked"]
                       [] OTHER -> [debounce EXCEPT !.pc = "dispatch", !.action = result.action]
  BY <1>1
<1> HIDE DEF result
<1>7. CASE result = Result(popup, Action("Nothing"))
  <2>1. popup' = popup /\ debounce' = Waiting
    BY <1>6, <1>7 DEF Result, Action
  <2>2. QED
    BY <1>2, <2>1, ScreenQuiet, BackAtChannel
<1>8. CASE result.action.type \in {"Show", "Erase"}
           /\ Written(PopupRows(popup), IF result.action.type = "Show" THEN ShowPopup(result.action)
                                        ELSE ErasePopup(result.action.lines, "hide"))
                = PopupRows(result.popup)
  <2>1. debounce' = [debounce EXCEPT !.pc = "dispatch", !.action = result.action]
    BY <1>6, <1>8
  <2>2. debounce'.pc = "dispatch" /\ debounce'.action = result.action
    BY <2>1 DEF IInv, TypeOK
  <2>3. Dispatched' = IF result.action.type = "Show" THEN ShowPopup(result.action)
                      ELSE ErasePopup(result.action.lines, "hide")
    BY <2>2 DEF Dispatched
  <2>4. ScreenAfter(screen, writeCh)' = ScreenAfter(screen, writeCh)
    BY <1>2
  <2>5. PopupRows(popup)' = PopupRows(result.popup)
    BY <1>6
  <2>6. main = "running" => ScreenAfter(screen, writeCh) = PopupRows(popup)
    BY <1>2 DEF ScreenCatchesUp
  <2>7. main' = main
    BY <1>2
  <2>8. QED
    BY <1>8, <2>2, <2>3, <2>4, <2>5, <2>6, <2>7 DEF ScreenCatchesUp
<1>9. QED
  BY <1>5, <1>7, <1>8

LEMMA ScreenDispatch == IInv /\ ScreenCatchesUp /\ DebounceDispatch => ScreenCatchesUp'
<1> SUFFICES ASSUME IInv, ScreenCatchesUp, DebounceDispatch PROVE ScreenCatchesUp'
  OBVIOUS
<1>1. Dispatched \in Drawing
  BY DEF IInv, TypeOK, InHand, Drawable, PopupAction, ShowPopup, ErasePopup, TerminalWrite,
     Drawing, Dispatched
<1>2. writeCh' = Append(writeCh, Dispatched) /\ debounce' = Waiting /\ debounce.pc = "dispatch"
      /\ UNCHANGED <<screen, popup, main>>
  BY DEF DebounceDispatch, SendWrite, Dispatched
<1>3. screen \in Rows /\ writeCh \in Seq(Drawing)
  BY QueueDraws DEF IInv
<1>4. ScreenAfter(screen, writeCh)' = ScreenAfter(screen, Append(writeCh, Dispatched))
  BY <1>2
<1>5. ScreenAfter(screen, Append(writeCh, Dispatched)) =
        Written(ScreenAfter(screen, writeCh), Dispatched)
  BY <1>1, <1>3, ScreenAppend
<1>6. debounce'.pc = "recv"
  BY <1>2, BackAtChannel
<1>7. PopupRows(popup)' = PopupRows(popup)
  BY <1>2
<1>8. QED
  BY <1>2, <1>4, <1>5, <1>6, <1>7 DEF ScreenCatchesUp

LEMMA ScreenPass ==
  IInv /\ OnlyEditsUnderway /\ ScreenCatchesUp /\ PtyPass => ScreenCatchesUp'
<1> SUFFICES ASSUME IInv, OnlyEditsUnderway, ScreenCatchesUp, PtyPass PROVE ScreenCatchesUp'
  OBVIOUS
<1> DEFINE write == Passthrough(ptyTask.events)
<1>1. UNCHANGED <<screen, popup, main, debounce>>
      /\ (writeCh' = Append(writeCh, write) \/ UNCHANGED writeCh)
  BY DEF PtyPass, SendWrite
<1>2. screen \in Rows /\ writeCh \in Seq(Drawing)
  BY QueueDraws DEF IInv
<1>3. ScreenAfter(screen, writeCh) \in Rows
  BY <1>2, ScreenAfterType
<1>4. write \in Drawing
      /\ Written(ScreenAfter(screen, writeCh), write) = ScreenAfter(screen, writeCh)
  BY <1>3, TextMovesNothing DEF OnlyEditsUnderway
<1> HIDE DEF write
<1>5. ScreenAfter(screen, writeCh)' = ScreenAfter(screen, writeCh)
  BY <1>1, <1>2, <1>4, ScreenAppend
<1>6. Dispatched' = Dispatched /\ PopupRows(popup)' = PopupRows(popup)
  BY <1>1 DEF Dispatched
<1>7. QED
  BY <1>1, <1>5, <1>6 DEF ScreenCatchesUp

LEMMA ScreenWritten == IInv /\ ScreenCatchesUp /\ WriterStep => ScreenCatchesUp'
<1> SUFFICES ASSUME IInv, ScreenCatchesUp, WriterStep PROVE ScreenCatchesUp'
  OBVIOUS
<1>1. UNCHANGED <<popup, main, debounce>> /\ writeCh # <<>> /\ writeCh' = Tail(writeCh)
      /\ screen' = Written(screen, Head(writeCh))
  BY DEF WriterStep, tasks
<1>2. screen \in Rows /\ writeCh \in Seq(Drawing)
  BY QueueDraws DEF IInv
<1>3. ScreenAfter(screen, writeCh)' = ScreenAfter(screen, writeCh)
  BY <1>1, <1>2, ScreenTail
<1>4. Dispatched' = Dispatched /\ PopupRows(popup)' = PopupRows(popup)
  BY <1>1 DEF Dispatched
<1>5. QED
  BY <1>1, <1>3, <1>4 DEF ScreenCatchesUp

LEMMA ScreenNext ==
  IInv /\ OnlyEditsUnderway /\ ScreenInv /\ [Next]_vars => ScreenInv'
<1> SUFFICES ASSUME IInv, OnlyEditsUnderway, ScreenInv, [Next]_vars PROVE ScreenInv'
  OBVIOUS
<1>1. NothingToDraw' /\ ScreenCatchesUp
  BY NothingToDrawNext DEF ScreenInv
<1> SUFFICES ScreenCatchesUp'
  BY <1>1 DEF ScreenInv
<1>2. ASSUME UNCHANGED <<screen, writeCh, popup, debounce>>, main' = main \/ main' # "running"
      PROVE  ScreenCatchesUp'
  BY <1>1, <1>2, ScreenQuiet
<1>3. CASE StdinOnKey
  <2>1. OnKey(popup, stdin.key) = Result(popup, Action("ForwardKey"))
    BY <1>3, OnKeyOfTyping DEF StdinOnKey, ScreenInv, NothingToDraw
  <2>2. UNCHANGED <<screen, writeCh, popup, debounce, main>>
    BY <1>3, <2>1 DEF StdinOnKey, Result, channels
  <2>3. QED
    BY <1>2, <2>2
<1>4. CASE StdinRead \/ StdinEof \/ StdinForward \/ StdinTrack \/ StdinNotify
  <2>1. UNCHANGED <<screen, writeCh, popup, debounce, main>>
    BY <1>4 DEF StdinRead, StdinEof, StdinForward, StdinTrack, StdinNotify, channels
  <2>2. QED
    BY <1>2, <2>1
<1>5. ~StdinMeasure /\ ~StdinSend /\ ~StdinSplice /\ ~StdinInject
  BY DEF StdinMeasure, StdinSend, StdinSplice, StdinInject, OnlyEditsUnderway, ScreenInv,
         NothingToDraw
<1>6. CASE DebounceRecv \/ DebounceDrain \/ DebounceTimeout \/ DebounceLock
  <2>1. debounce.pc # "dispatch" /\ debounce'.pc \in {"drain", "lock", "fetch"}
    BY <1>6 DEF DebounceRecv, DebounceDrain, DebounceTimeout, DebounceLock, IInv, TypeOK
  <2>2. UNCHANGED <<screen, writeCh, main>>
    BY <1>6 DEF DebounceRecv, DebounceDrain, DebounceTimeout, DebounceLock, channels
  <2>3. popup'.visible = popup.visible /\ popup'.popupLines = popup.popupLines
    BY <1>6 DEF DebounceRecv, DebounceDrain, DebounceTimeout, DebounceLock, AskFor, IInv, TypeOK,
       Popup
  <2>4. QED
    BY <1>1, <2>1, <2>2, <2>3, ScreenQuiet
<1>7. CASE DebounceAnswer \/ DebounceDispatch \/ PtyPass \/ WriterStep
  BY <1>1, <1>7, ScreenAnswer, ScreenDispatch, ScreenPass, ScreenWritten
<1>8. CASE Resize
  <2>1. UNCHANGED <<screen, writeCh, debounce, main>>
    BY <1>8 DEF Resize, tasks, channels
  <2>2. popup'.visible = popup.visible /\ popup'.popupLines = popup.popupLines
    BY <1>8 DEF Resize, IInv, TypeOK, Popup
  <2>3. QED
    BY <1>1, <2>1, <2>2, ScreenQuiet
<1>9. CASE ReaderChunk \/ PtyRecv \/ PtyEnd \/ ShellStep \/ ShellExits \/ Rest \/ UNCHANGED vars
  <2>1. UNCHANGED <<screen, writeCh, popup, debounce, main>>
    BY <1>9 DEF ReaderChunk, PtyRecv, PtyEnd, ShellStep, ShellReadsKey, ShellReadsLine,
       ShellPrompts, ShellExits, Rest, vars, tasks, channels
  <2>2. QED
    BY <1>2, <2>1
<1>10. ~PtyCommandLine /\ ~PtyPromptStart /\ ~PtyReset /\ ~PtyErase /\ ~PtyPromptEnd
  BY DEF PtyCommandLine, PtyPromptStart, PtyReset, PtyErase, PtyPromptEnd, OnlyEditsUnderway
<1>11. CASE Shutdown
  <2>1. main' # "running"
    BY <1>11 DEF Shutdown, AbortStdin, AbortSigwinch, AbortDebounce, AbortPtyWriter, JoinWriter
  <2>2. QED
    BY <2>1 DEF ScreenCatchesUp
<1>12. QED
  BY <1>3, <1>4, <1>5, <1>6, <1>7, <1>8, <1>9, <1>10, <1>11
     DEF Next, StdinWork, DebounceTask, PtyTask

(* However the answers of the daemon, the output of the shell and the      *)
(* drawing interleave while the user types, the popup rows that the        *)
(* terminal shows once the queue is written are those of the popup: the    *)
(* debounce task draws under the guard under which it decided, and each    *)
(* popup is drawn over the rows of the one before (event_loop.rs:202-205,  *)
(* popup.rs:64-94, overlay.rs render_popup_inplace and erase_popup).       *)
THEOREM ScreenFollowsTyping == OnlyTyping => (Spec => []ScreenFollowsPopup)
<1> SUFFICES ASSUME OnlyTyping PROVE Spec => []ScreenFollowsPopup
  OBVIOUS
<1> DEFINE Inv == OnlyEditsUnderway /\ ScreenInv
<1>1. Init => Inv
  BY EditsInit, ScreenInit DEF OnlyTyping
<1>2. IInv /\ Inv /\ [Next]_vars => Inv'
  BY EditsNext, ScreenNext DEF OnlyTyping
<1>3. Inv => ScreenFollowsPopup
  BY DEF ScreenInv, ScreenCatchesUp, ScreenFollowsPopup, PopupHeld
<1> HIDE DEF Inv
<1>4. QED
  BY <1>1, <1>2, <1>3, SpecInv, PTL DEF Spec

-----------------------------------------------------------------------------
(* An accepted suggestion replaces the word before the cursor.             *)

\* No character of a line is longer than a byte or has a part in quoting.
PlainLines ==
  Continuation = {} /\ Bytes \cap {Backslash, SingleQuote, DoubleQuote} = {}

\* A character then is where its index says.
LEMMA PlainOffset ==
  ASSUME PlainLines, NEW s \in String, NEW index \in Nat
  PROVE  CharToByte(s, index) = Least(index, Len(s))
<1> DEFINE N == Len(s)
           found == {i \in Leads(s) : Cardinality({j \in Leads(s) : j < i}) = index}
<1>1. N \in Nat
  BY DEF String
<1>2. Leads(s) = 1 .. N
  BY DEF Leads, PlainLines
<1>3. CharToByte(s, index) = IF found = {} THEN N ELSE (CHOOSE i \in found : TRUE) - 1
  BY DEF CharToByte
<1> HIDE DEF N
<1>4. \A i \in 1 .. N : Cardinality({j \in Leads(s) : j < i}) = i - 1
  <2> TAKE i \in 1 .. N
  <2>1. {j \in Leads(s) : j < i} = 1 .. i - 1
    BY <1>1, <1>2
  <2>2. Cardinality(1 .. i - 1) = i - 1
    <3>1. 1 \in Int /\ i - 1 \in Int
      BY <1>1
    <3>2. Cardinality(1 .. i - 1) = IF 1 > i - 1 THEN 0 ELSE (i - 1) - 1 + 1
      BY <3>1, FS_Interval
    <3>3. QED
      BY <1>1, <3>2
  <2>3. QED
    BY <2>1, <2>2
<1>5. found = {i \in 1 .. N : i - 1 = index}
  BY <1>2, <1>4
<1> HIDE DEF found
<1>6. CASE index < N
  <2>1. found = {index + 1}
    BY <1>1, <1>5, <1>6
  <2>2. (CHOOSE i \in found : TRUE) = index + 1
    BY <2>1
  <2>3. found # {}
    BY <2>1
  <2>4. CharToByte(s, index) = (index + 1) - 1
    BY <1>3, <2>2, <2>3, Zenon
  <2>5. QED
    BY <1>1, <1>6, <2>4 DEF Least, N
<1>7. CASE ~(index < N)
  <2>1. found = {}
    BY <1>1, <1>5, <1>7
  <2>2. QED
    BY <1>3, <1>7, <2>1 DEF Least, N
<1>8. QED
  BY <1>6, <1>7

\* A scan of such a line stays outside quotes.
LEMMA PlainQuotes ==
  ASSUME PlainLines, NEW s \in String
  PROVE  \A n \in 0 .. Len(s) : Quotes(s)[n] = Unquoted
<1> DEFINE N == Len(s)
           Def(g) == [n \in 0 .. N |-> IF n = 0 THEN Unquoted ELSE NextQuoting(g[n - 1], s[n])]
           plain == [n \in 0 .. N |-> Unquoted]
<1>1. N \in Nat /\ \A n \in 1 .. N : s[n] \in Bytes
  BY ElementOfSeq DEF String
<1>2. \A n \in 1 .. N : NextQuoting(Unquoted, s[n]) = Unquoted
  <2> TAKE n \in 1 .. N
  <2>1. ~IsSyntax(Unquoted, s[n])
    BY <1>1 DEF PlainLines, IsSyntax, Unquoted
  <2>2. QED
    BY <2>1 DEF NextQuoting, Unquoted
<1>3. Quotes(s) = CHOOSE g : g = Def(g)
  BY DEF Quotes
<1> HIDE DEF N
<1>4. plain = Def(plain)
  BY <1>1, <1>2
<1> DEFINE quotes == Quotes(s)
<1>5. quotes = Def(quotes)
  <2> HIDE DEF Def, plain
  <2>1. QED
    BY <1>3, <1>4
<1> HIDE DEF quotes
<1> DEFINE S == {n \in Nat : n <= N => quotes[n] = Unquoted}
<1>6. 0 \in S
  BY <1>1, <1>5
<1>7. ASSUME NEW n \in Nat, n \in S PROVE n + 1 \in S
  <2>1. SUFFICES ASSUME n + 1 <= N PROVE quotes[n + 1] = Unquoted
    OBVIOUS
  <2>2. quotes[n] = Unquoted
    BY <1>1, <1>7, <2>1
  <2>3. n + 1 \in 1 .. N /\ (n + 1) - 1 = n
    BY <1>1, <2>1
  <2>4. quotes[n + 1] = NextQuoting(quotes[n], s[n + 1])
    <3>1. n + 1 \in 0 .. N /\ n + 1 # 0
      BY <1>1, <2>3
    <3>2. quotes[n + 1] = IF n + 1 = 0 THEN Unquoted ELSE NextQuoting(quotes[(n + 1) - 1], s[n + 1])
      BY <1>5, <3>1
    <3>3. QED
      BY <2>3, <3>1, <3>2
  <2>5. QED
    BY <1>2, <2>2, <2>3, <2>4
<1>8. \A n \in Nat : n \in S
  BY <1>6, <1>7, Induction
<1>9. QED
  BY <1>1, <1>8 DEF N, quotes

\* The token to replace then starts after the last blank before the cursor.
LEMMA PlainTokenStart ==
  ASSUME PlainLines, NEW line \in String, NEW cursor \in Nat
  PROVE  FindTokenStart(line, cursor) =
           Greatest({n \in 1 .. Least(cursor, Len(line)) : line[n] \in Blanks})
<1> DEFINE offset == Least(cursor, Len(line))
           s == UpTo(line, offset)
<1>1. offset \in Nat /\ offset <= Len(line)
  BY DEF Least, String
<1> HIDE DEF offset
<1>2. s \in String
  BY <1>1, SliceTypes DEF String
<1>3. Len(s) = offset /\ \A n \in 1 .. offset : s[n] = line[n]
  BY <1>1 DEF UpTo, String
<1> HIDE DEF s
<1>4. \A n \in 1 .. offset : Quotes(s)[n - 1] = Unquoted
  BY <1>1, <1>2, <1>3, PlainQuotes
<1>5. TokenBoundaries(s) = {n \in 1 .. offset : line[n] \in Blanks}
  BY <1>3, <1>4 DEF TokenBoundaries, IsDelimiter, Unquoted
<1>6. QED
  BY <1>5 DEF FindTokenStart, s, offset

\* So what is spliced is the line with its word replaced.
LEMMA PlainSplice ==
  ASSUME PlainLines, NEW p \in Popup, NEW action,
         action.tokenStart = FindTokenStart(p.lastBuffer, p.lastCursor)
  PROVE  Spliced(p, action) = WordReplaced(p.lastBuffer, p.lastCursor, action.insert)
<1> DEFINE line == p.lastBuffer
           cursor == p.lastCursor
           offset == Least(cursor, Len(line))
           start == FindTokenStart(line, cursor)
<1>1. line \in String /\ cursor \in Nat
  BY DEF Popup
<1>2. Spliced(p, action) =
        UpTo(line, start) \o action.insert \o <<" ">> \o After(line, cursor)
  BY DEF Spliced
<1> HIDE DEF line, cursor
<1>3. CharToByte(line, cursor) = offset
  BY <1>1, PlainOffset
<1>4. start = Greatest({n \in 1 .. offset : line[n] \in Blanks})
  BY <1>1, PlainTokenStart
<1>5. WordReplaced(line, cursor, action.insert) =
        UpTo(line, start) \o action.insert \o <<" ">> \o After(line, offset)
  BY <1>3, <1>4 DEF WordReplaced
<1> HIDE DEF start
<1>6. After(line, cursor) = After(line, offset)
  <2>1. CASE cursor < Len(line)
    BY <2>1 DEF Least
  <2>2. CASE ~(cursor < Len(line))
    <3>1. Len(line) \in Nat /\ offset = Len(line)
      BY <1>1, <2>2 DEF Least, String
    <3>2. \A m \in Nat : m >= Len(line) => After(line, m) = <<>>
      BY <1>1, <3>1, SubSeqProperties DEF After, String
    <3>3. QED
      BY <1>1, <2>2, <3>1, <3>2
  <2>3. QED
    BY <2>1, <2>2
<1>7. QED
  BY <1>2, <1>5, <1>6 DEF line, cursor

-----------------------------------------------------------------------------
\* Once the session shuts down the stdin task does nothing more.
StdinStops == main # "running" => stdin.pc \in {"ended", "panicked", "aborted"}

\* Nothing can reach the popup's line or the shell's before the stdin task does.
Undisturbed ==
  /\ shell.mode # "running" /\ ptyWrite = <<>> /\ tty = <<>> /\ ptyOut = <<>>
  /\ debounceCh = <<>> /\ debounce.pc = "recv" /\ ptyTask.pc \in {"recv", "ended"}

(* Where the line is that an accepted suggestion should leave: still to be *)
(* cut out of the popup's line, in the hand of the stdin task, the next    *)
(* that the shell reads, or dropped with the task.                         *)
ToSplice ==
  /\ stdin.pc \in {"measure", "send", "splice"} /\ stdin.action.type = "Accept"
  /\ Undisturbed
  /\ Spliced(popup, stdin.action) = history.expected

ToInject == stdin.pc = "inject" /\ stdin.line = history.expected /\ ptyWrite = <<>>

Injected ==
  ptyWrite # <<>> /\ Head(ptyWrite) = [type |-> "Line", line |-> history.expected]

Dropped == stdin.pc \in {"ended", "panicked", "aborted"} /\ ptyWrite = <<>>

ReplacementUnderway ==
  history.expected # <<>> => ToSplice \/ ToInject \/ Injected \/ Dropped

AcceptInv == StdinStops /\ ReplacementUnderway

LEMMA StopsNext == IInv /\ StdinStops /\ [Next]_vars => StdinStops'
<1> SUFFICES ASSUME IInv, StdinStops, [Next]_vars PROVE StdinStops'
  OBVIOUS
<1>1. CASE StdinWork \/ StdinEof
  BY <1>1 DEF StdinWork, StdinRead, StdinOnKey, StdinMeasure, StdinSend, StdinSplice,
     StdinInject, StdinForward, StdinTrack, StdinNotify, StdinEof, StdinStops
<1>2. CASE AbortStdin
  <2>1. stdin'.pc \in {"ended", "panicked", "aborted"}
    BY <1>2 DEF AbortStdin, Stopped, IInv, TypeOK
  <2>2. QED
    BY <2>1 DEF StdinStops
<1>3. CASE DebounceTask \/ ReaderChunk \/ PtyTask \/ WriterStep \/ Resize \/ ShellStep
           \/ ShellExits \/ Rest \/ UNCHANGED vars
  <2>1. UNCHANGED <<main, stdin>>
    BY <1>3 DEF DebounceTask, DebounceRecv, DebounceDrain, DebounceTimeout, DebounceLock,
       DebounceAnswer, DebounceDispatch, ReaderChunk, PtyTask, PtyRecv, PtyPass, PtyCommandLine,
       PtyPromptStart, PtyReset, PtyErase, PtyPromptEnd, PtyEnd, WriterStep, Resize, ShellStep,
       ShellReadsKey, ShellReadsLine, ShellPrompts, ShellExits, Rest, vars, tasks
  <2>2. QED
    BY <2>1 DEF StdinStops
<1>4. CASE AbortSigwinch \/ AbortDebounce \/ AbortPtyWriter \/ JoinWriter
  <2>1. UNCHANGED stdin /\ main # "running"
    BY <1>4 DEF AbortSigwinch, AbortDebounce, AbortPtyWriter, JoinWriter
  <2>2. QED
    BY <2>1 DEF StdinStops
<1>5. QED
  BY <1>1, <1>2, <1>3, <1>4 DEF Next, Shutdown

\* What else moves leaves the replacement where it is.
LEMMA UnderwayQuiet ==
  ASSUME ReplacementUnderway, UNCHANGED <<stdin, ptyWrite>>,
         history'.expected = history.expected, Undisturbed => Undisturbed',
         Undisturbed => UNCHANGED <<popup.lastBuffer, popup.lastCursor>>
  PROVE  ReplacementUnderway'
<1> DEFINE text == Spliced(popup, stdin.action)
<1>1. Undisturbed => text' = text
  BY DEF Spliced
<1> HIDE DEF text
<1>2. ToSplice => ToSplice'
  BY <1>1 DEF ToSplice, text
<1>3. (ToInject => ToInject') /\ (Injected => Injected') /\ (Dropped => Dropped')
  BY DEF ToInject, Injected, Dropped
<1>4. QED
  BY <1>2, <1>3 DEF ReplacementUnderway

\* Only the acceptance of the selected item is one, and it keeps the popup's line.
LEMMA AcceptIsSelected ==
  ASSUME NEW p \in Popup, NEW key, OnKey(p, key).action.type = "Accept"
  PROVE  /\ OnKey(p, key) = AcceptSelected(p)
         /\ OnKey(p, key).popup = Closed(p)
         /\ OnKey(p, key).action.tokenStart = FindTokenStart(p.lastBuffer, p.lastCursor)
<1>1. \A type \in ActionTypes : Action(type).type = type
  BY DEF Action
<1>2. \A lines, prev, row :
        Erase(lines).type = "Erase" /\ EraseAndForward(lines).type = "EraseAndForward"
        /\ Show(lines, prev, row).type = "Show"
  BY DEF Erase, EraseAndForward, Show, Action
<1>3. \A q : Hide(q).action.type # "Accept"
  BY <1>1, <1>2 DEF Hide, Result, ActionTypes
<1>4. \A q, prev : RenderInplace(q, prev).action.type # "Accept"
  BY <1>1, <1>2, <1>3 DEF RenderInplace, Result, ActionTypes
<1>5. \A item : Select(p, item).action.type # "Accept"
  BY <1>1, <1>4 DEF Select, Result, ActionTypes
<1>6. OnKey(p, key) = AcceptSelected(p)
  BY <1>1, <1>2, <1>3, <1>5 DEF OnKey, Result, ActionTypes
<1>7. ~(p.selected >= Len(p.items))
  <2>1. p.selected >= Len(p.items) => AcceptSelected(p) = Hide(p)
    BY DEF AcceptSelected, Popup
  <2>2. QED
    BY <1>3, <1>6, <2>1
<1> DEFINE start == FindTokenStart(p.lastBuffer, p.lastCursor)
           insert == p.items[p.selected + 1]
<1>8. AcceptSelected(p) = Result(Closed(p), Accept(start, insert))
  BY <1>1, <1>6, <1>7 DEF AcceptSelected, Result, ActionTypes
<1> HIDE DEF start, insert
<1>9. Accept(start, insert).tokenStart = start
  BY DEF Accept, Action
<1>10. AcceptSelected(p).popup = Closed(p) /\ AcceptSelected(p).action.tokenStart = start
  BY <1>8, <1>9 DEF Result
<1>11. QED
  BY <1>6, <1>10 DEF start

\* The popup decides: the line expected is the one that will be spliced, when
\* nothing is on its way that could change it.
LEMMA UnderwayOnKey ==
  PlainLines /\ IInv /\ ReplacementUnderway /\ StdinOnKey => ReplacementUnderway'
<1> SUFFICES ASSUME PlainLines, IInv, ReplacementUnderway, StdinOnKey
             PROVE  ReplacementUnderway'
  OBVIOUS
<1> DEFINE result == OnKey(popup, stdin.key)
           action == result.action
<1>1. stdin.pc = "onKey" /\ popup \in Popup
      /\ UNCHANGED <<shell, ptyWrite, tty, ptyOut, debounceCh, debounce, ptyTask>>
  BY DEF StdinOnKey, channels, IInv, TypeOK
<1>2. history.expected # <<>> => Injected
  BY <1>1 DEF ReplacementUnderway, ToSplice, ToInject, Dropped
<1>3. CASE action.type # "Accept"
  <2>1. history' = history
    BY <1>3 DEF StdinOnKey
  <2>2. Injected => Injected'
    BY <1>1, <2>1 DEF Injected
  <2>3. QED
    BY <1>2, <2>1, <2>2 DEF ReplacementUnderway
<1>4. CASE action.type = "Accept"
  <2>1. /\ popup' = result.popup
        /\ stdin' = [stdin EXCEPT !.pc = "measure", !.action = action]
        /\ history' = [history EXCEPT !.expected = LineAfterAccept(action.insert)]
    BY <1>4 DEF StdinOnKey, PcFor
  <2>2. result = AcceptSelected(popup) /\ result.popup = Closed(popup)
        /\ action.tokenStart = FindTokenStart(popup.lastBuffer, popup.lastCursor)
    <3>1. OnKey(popup, stdin.key).action.type = "Accept"
      BY <1>4
    <3>2. QED
      BY <1>1, <3>1, AcceptIsSelected, Zenon
  <2> HIDE DEF result
  <2>3. /\ stdin'.pc = "measure" /\ stdin'.action = action
        /\ history'.expected = LineAfterAccept(action.insert)
    BY <2>1 DEF IInv, TypeOK
  <2>4. CASE ~Settled
    BY <2>3, <2>4 DEF LineAfterAccept, ReplacementUnderway
  <2>5. CASE Settled
    <3>1. Undisturbed'
      BY <1>1, <2>5 DEF Settled, Undisturbed
    <3>2. popup'.lastBuffer = popup.lastBuffer /\ popup'.lastCursor = popup.lastCursor
      BY <1>1, <2>1, <2>2 DEF Closed, Popup
    <3>3. Spliced(popup, action) = WordReplaced(popup.lastBuffer, popup.lastCursor, action.insert)
      BY <1>1, <2>2, PlainSplice
    <3>4. Spliced(popup, action) = history'.expected
      BY <2>3, <2>5, <3>3 DEF LineAfterAccept, Settled
    <3>5. Spliced(popup, stdin.action)' = Spliced(popup, action)
      BY <2>3, <3>2 DEF Spliced
    <3>6. ToSplice'
      BY <1>4, <2>3, <3>1, <3>4, <3>5 DEF ToSplice
    <3>7. QED
      BY <3>6 DEF ReplacementUnderway
  <2>6. QED
    BY <2>4, <2>5
<1>5. QED
  BY <1>3, <1>4

\* The stdin task carries the line to the shell.
LEMMA UnderwayStdin ==
  IInv /\ ReplacementUnderway
    /\ (StdinRead \/ StdinEof \/ StdinMeasure \/ StdinSend \/ StdinForward \/ StdinTrack
        \/ StdinNotify)
  => ReplacementUnderway'
<1> SUFFICES ASSUME IInv, ReplacementUnderway,
                    StdinRead \/ StdinEof \/ StdinMeasure \/ StdinSend \/ StdinForward
                      \/ StdinTrack \/ StdinNotify
             PROVE  ReplacementUnderway'
  OBVIOUS
<1>1. UNCHANGED <<history, shell, popup, tty, ptyOut, debounce, ptyTask>>
  BY DEF StdinRead, StdinEof, StdinMeasure, StdinSend, StdinForward, StdinTrack, StdinNotify,
     channels
<1>2. CASE StdinRead \/ StdinEof \/ StdinForward \/ StdinTrack \/ StdinNotify
  <2>1. history.expected # <<>> => Injected
    BY <1>2 DEF StdinRead, StdinEof, StdinForward, StdinTrack, StdinNotify, ReplacementUnderway,
       ToSplice, ToInject, Dropped
  <2>2. Injected => Injected'
    <3>1. CASE StdinForward
      <4>1. PICK bytes : ptyWrite' = Append(ptyWrite, bytes)
        BY <3>1 DEF StdinForward, SendToShell
      <4>2. ptyWrite \in Seq(ToShell)
        BY DEF IInv, TypeOK
      <4>3. ptyWrite # <<>> => Head(ptyWrite') = Head(ptyWrite) /\ ptyWrite' # <<>>
        BY <4>1, <4>2
      <4>4. QED
        BY <1>1, <4>3 DEF Injected
    <3>2. CASE StdinRead \/ StdinEof \/ StdinTrack \/ StdinNotify
      <4>1. UNCHANGED ptyWrite
        BY <3>2 DEF StdinRead, StdinEof, StdinTrack, StdinNotify, channels
      <4>2. QED
        BY <1>1, <4>1 DEF Injected
    <3>3. QED
      BY <1>2, <3>1, <3>2
  <2>3. QED
    BY <1>1, <2>1, <2>2 DEF ReplacementUnderway
<1>3. CASE StdinMeasure \/ StdinSend
  <2>1. UNCHANGED <<ptyWrite, debounceCh>> /\ stdin.pc \in {"measure", "send"}
    BY <1>3 DEF StdinMeasure, StdinSend, channels
  <2>2. Undisturbed => Undisturbed'
    BY <1>1, <2>1 DEF Undisturbed
  <2>3. stdin.action.type = "Accept" =>
          /\ stdin'.pc \in {"send", "splice"} /\ stdin'.action.type = "Accept"
          /\ stdin'.action.tokenStart = stdin.action.tokenStart
          /\ stdin'.action.insert = stdin.action.insert
    <3>1. CASE StdinMeasure
      <4>1. stdin' = [stdin EXCEPT !.pc = "send", !.action.lines = WindowLength(popup)]
        BY <3>1 DEF StdinMeasure
      <4>2. QED
        BY <4>1 DEF IInv, TypeOK, PopupAction
    <3>2. CASE StdinSend
      <4>1. stdin.action.type = "Accept" => stdin' = [stdin EXCEPT !.pc = "splice"]
        BY <3>2 DEF StdinSend
      <4>2. QED
        BY <4>1 DEF IInv, TypeOK
    <3>3. QED
      BY <1>3, <3>1, <3>2
  <2> DEFINE text == Spliced(popup, stdin.action)
  <2>4. stdin.action.type = "Accept" => text' = text
    BY <1>1, <2>3 DEF Spliced
  <2> HIDE DEF text
  <2>5. ToSplice => ToSplice'
    BY <1>1, <2>2, <2>3, <2>4 DEF ToSplice, text
  <2>6. Injected => Injected'
    BY <1>1, <2>1 DEF Injected
  <2>7. QED
    BY <1>1, <2>1, <2>5, <2>6 DEF ReplacementUnderway, ToInject, Dropped
<1>4. QED
  BY <1>2, <1>3

LEMMA UnderwaySplice ==
  IInv /\ ReplacementUnderway /\ (StdinSplice \/ StdinInject) => ReplacementUnderway'
<1> SUFFICES ASSUME IInv, ReplacementUnderway, StdinSplice \/ StdinInject
             PROVE  ReplacementUnderway'
  OBVIOUS
<1>1. CASE StdinSplice
  <2>1. UNCHANGED <<history, ptyWrite>> /\ stdin.pc = "splice"
    BY <1>1 DEF StdinSplice, channels
  <2> DEFINE text == Spliced(popup, stdin.action)
  <2>2. (stdin'.pc = "inject" /\ stdin'.line = text) \/ stdin'.pc = "panicked"
    BY <1>1 DEF StdinSplice, IInv, TypeOK
  <2> HIDE DEF text
  <2>3. ToSplice => ToInject' \/ Dropped'
    BY <2>1, <2>2 DEF ToSplice, ToInject, Dropped, Undisturbed, text
  <2>4. Injected => Injected'
    BY <2>1 DEF Injected
  <2>5. QED
    BY <2>1, <2>3, <2>4 DEF ReplacementUnderway, ToInject, Dropped
<1>2. CASE StdinInject
  <2> DEFINE bytes == [type |-> "Line", line |-> stdin.line]
  <2>1. ptyWrite' = Append(ptyWrite, bytes) /\ UNCHANGED history /\ stdin.pc = "inject"
    BY <1>2 DEF StdinInject, SendToShell
  <2>2. ptyWrite \in Seq(ToShell)
    BY DEF IInv, TypeOK
  <2>3. ToInject => Injected'
    <3>1. ToInject => ptyWrite' = <<bytes>> /\ bytes = [type |-> "Line", line |-> history.expected]
      BY <2>1 DEF ToInject
    <3> HIDE DEF bytes
    <3>2. ToInject => ptyWrite' # <<>> /\ Head(ptyWrite') = bytes
      BY <3>1
    <3>3. QED
      BY <2>1, <3>1, <3>2 DEF Injected
  <2>4. Injected => Injected'
    <3> HIDE DEF bytes
    <3>1. ptyWrite # <<>> => ptyWrite' # <<>> /\ Head(ptyWrite') = Head(ptyWrite)
      BY <2>1, <2>2
    <3>2. QED
      BY <2>1, <3>1 DEF Injected
  <2>5. QED
    BY <2>1, <2>3, <2>4 DEF ReplacementUnderway, ToSplice, Dropped
<1>3. QED
  BY <1>1, <1>2

\* The other tasks have nothing to do while the line is being replaced.
LEMMA UnderwayBackground ==
  IInv /\ ReplacementUnderway
    /\ (DebounceTask \/ ReaderChunk \/ PtyTask \/ WriterStep \/ Resize \/ Rest \/ UNCHANGED vars)
  => ReplacementUnderway'
<1> SUFFICES ASSUME IInv, ReplacementUnderway,
                    DebounceTask \/ ReaderChunk \/ PtyTask \/ WriterStep \/ Resize \/ Rest
                      \/ UNCHANGED vars
             PROVE  ReplacementUnderway'
  OBVIOUS
<1>1. CASE DebounceTask
  <2>1. ~Undisturbed
    BY <1>1 DEF DebounceTask, DebounceRecv, DebounceDrain, DebounceTimeout, DebounceLock,
       DebounceAnswer, DebounceDispatch, Undisturbed
  <2>2. UNCHANGED <<stdin, ptyWrite, history>>
    BY <1>1 DEF DebounceTask, DebounceRecv, DebounceDrain, DebounceTimeout, DebounceLock,
       DebounceAnswer, DebounceDispatch, channels
  <2>3. QED
    BY <2>1, <2>2, UnderwayQuiet
<1>2. CASE ReaderChunk \/ (PtyTask /\ ~PtyEnd)
  <2>1. ~Undisturbed
    BY <1>2 DEF ReaderChunk, PtyTask, PtyRecv, PtyPass, PtyCommandLine, PtyPromptStart, PtyReset,
       PtyErase, PtyPromptEnd, Undisturbed
  <2>2. UNCHANGED <<stdin, ptyWrite, history>>
    BY <1>2 DEF ReaderChunk, PtyTask, PtyRecv, PtyPass, PtyCommandLine, PtyPromptStart, PtyReset,
       PtyErase, PtyPromptEnd, channels, tasks
  <2>3. QED
    BY <2>1, <2>2, UnderwayQuiet
<1>3. CASE PtyEnd
  <2>1. UNCHANGED <<stdin, ptyWrite, history, popup, shell, tty, ptyOut, debounceCh, debounce>>
        /\ ptyTask'.pc = "ended"
    BY <1>3 DEF PtyEnd, channels, IInv, TypeOK
  <2>2. Undisturbed => Undisturbed'
    BY <2>1 DEF Undisturbed
  <2>3. QED
    BY <2>1, <2>2, UnderwayQuiet
<1>4. CASE WriterStep
  <2>1. UNCHANGED <<stdin, ptyWrite, popup, shell, tty, ptyOut, debounceCh, debounce, ptyTask>>
    BY <1>4 DEF WriterStep, tasks
  <2>2. history'.expected = history.expected
    BY <1>4 DEF WriterStep, IInv, TypeOK
  <2>3. Undisturbed => Undisturbed'
    BY <2>1 DEF Undisturbed
  <2>4. QED
    BY <2>1, <2>2, <2>3, UnderwayQuiet
<1>5. CASE Resize
  <2>1. UNCHANGED <<stdin, ptyWrite, history, shell, tty, ptyOut, debounceCh, debounce, ptyTask>>
    BY <1>5 DEF Resize, tasks, channels
  <2>2. popup'.lastBuffer = popup.lastBuffer /\ popup'.lastCursor = popup.lastCursor
    BY <1>5 DEF Resize, IInv, TypeOK, Popup
  <2>3. Undisturbed => Undisturbed'
    BY <2>1 DEF Undisturbed
  <2>4. QED
    BY <2>1, <2>2, <2>3, UnderwayQuiet
<1>6. CASE Rest \/ UNCHANGED vars
  <2>1. UNCHANGED <<stdin, ptyWrite, history, popup, shell, tty, ptyOut, debounceCh, debounce,
                    ptyTask>>
    BY <1>6 DEF Rest, vars, tasks, channels
  <2>2. Undisturbed => Undisturbed'
    BY <2>1 DEF Undisturbed
  <2>3. QED
    BY <2>1, <2>2, UnderwayQuiet
<1>7. QED
  BY <1>1, <1>2, <1>3, <1>4, <1>5, <1>6

\* The shell reads what is sent in its order.
LEMMA UnderwayShell ==
  IInv /\ ReplacementUnderway /\ (ShellStep \/ ShellExits) => ReplacementUnderway'
<1> SUFFICES ASSUME IInv, ReplacementUnderway, ShellStep \/ ShellExits
             PROVE  ReplacementUnderway'
  OBVIOUS
<1>1. CASE ShellReadsLine
  <2>1. history'.expected = <<>>
    BY <1>1 DEF ShellReadsLine, IInv, TypeOK
  <2>2. QED
    BY <2>1 DEF ReplacementUnderway
<1>2. CASE ShellReadsKey
  <2>1. ptyWrite # <<>> /\ Head(ptyWrite).type = "Key" /\ UNCHANGED history
    BY <1>2 DEF ShellReadsKey
  <2>2. ~ToSplice /\ ~ToInject /\ ~Injected /\ ~Dropped
    BY <2>1 DEF ToSplice, Undisturbed, ToInject, Injected, Dropped
  <2>3. QED
    BY <2>1, <2>2 DEF ReplacementUnderway
<1>3. CASE ShellPrompts
  <2>1. ~Undisturbed /\ UNCHANGED <<stdin, ptyWrite, history>>
    BY <1>3 DEF ShellPrompts, Undisturbed, tasks
  <2>2. QED
    BY <2>1, UnderwayQuiet
<1>4. CASE ShellExits
  <2>1. UNCHANGED <<stdin, ptyWrite, history, popup, tty, ptyOut, debounceCh, debounce, ptyTask>>
        /\ shell'.mode = "exited"
    BY <1>4 DEF ShellExits, tasks, channels, IInv, TypeOK, ShellState
  <2>2. Undisturbed => Undisturbed'
    BY <2>1 DEF Undisturbed
  <2>3. QED
    BY <2>1, <2>2, UnderwayQuiet
<1>5. QED
  BY <1>1, <1>2, <1>3, <1>4 DEF ShellStep

\* What the session drops at its end it does not replace.
LEMMA UnderwayShutdown ==
  IInv /\ AcceptInv /\ Shutdown => ReplacementUnderway'
<1> SUFFICES ASSUME IInv, AcceptInv, Shutdown PROVE ReplacementUnderway'
  OBVIOUS
<1>1. UNCHANGED <<history, popup, tty, ptyOut, debounceCh, shell, ptyTask>>
  BY DEF Shutdown, AbortStdin, AbortSigwinch, AbortDebounce, AbortPtyWriter, JoinWriter, channels
<1>2. ReplacementUnderway
  BY DEF AcceptInv
<1>3. CASE AbortStdin
  <2>1. UNCHANGED ptyWrite /\ stdin'.pc \in {"ended", "panicked", "aborted"}
    BY <1>3 DEF AbortStdin, Stopped, channels, IInv, TypeOK
  <2>2. ToSplice \/ ToInject \/ Dropped => Dropped'
    BY <2>1 DEF ToSplice, Undisturbed, ToInject, Dropped
  <2>3. Injected => Injected'
    BY <1>1, <2>1 DEF Injected
  <2>4. QED
    BY <1>1, <1>2, <2>2, <2>3 DEF ReplacementUnderway
<1>4. CASE ~AbortStdin
  <2>1. UNCHANGED stdin /\ main # "running" /\ (UNCHANGED ptyWrite \/ ptyWrite' = <<>>)
    BY <1>4 DEF Shutdown, AbortSigwinch, AbortDebounce, AbortPtyWriter, JoinWriter, channels
  <2>2. stdin.pc \in {"ended", "panicked", "aborted"}
    BY <2>1 DEF AcceptInv, StdinStops
  <2>3. CASE ptyWrite' = <<>>
    BY <2>1, <2>2, <2>3 DEF ReplacementUnderway, Dropped
  <2>4. CASE UNCHANGED ptyWrite
    <3>1. ~ToSplice /\ ~ToInject
      BY <2>2 DEF ToSplice, ToInject
    <3>2. (Injected => Injected') /\ (Dropped => Dropped')
      BY <1>1, <2>1, <2>4 DEF Injected, Dropped
    <3>3. QED
      BY <1>1, <1>2, <3>1, <3>2 DEF ReplacementUnderway
  <2>5. QED
    BY <2>1, <2>3, <2>4
<1>5. QED
  BY <1>3, <1>4

LEMMA AcceptInit == Init => AcceptInv
BY DEF Init, NoHistory, AcceptInv, StdinStops, ReplacementUnderway

LEMMA AcceptNext == PlainLines /\ IInv /\ AcceptInv /\ [Next]_vars => AcceptInv'
<1> SUFFICES ASSUME PlainLines, IInv, AcceptInv, [Next]_vars PROVE AcceptInv'
  OBVIOUS
<1>1. StdinStops'
  BY StopsNext DEF AcceptInv
<1>2. ReplacementUnderway'
  <2>1. ReplacementUnderway
    BY DEF AcceptInv
  <2>2. QED
    BY <2>1, UnderwayOnKey, UnderwayStdin, UnderwaySplice, UnderwayBackground, UnderwayShell,
       UnderwayShutdown DEF Next, StdinWork
<1>3. QED
  BY <1>1, <1>2 DEF AcceptInv

\* The shell's line is the one expected once it has read it.
LEMMA ExpectedIsRead ==
  IInv /\ AcceptInv =>
    (ShellReadsLine /\ history.expected # <<>> => shell'.line = history.expected)
<1> SUFFICES ASSUME IInv, AcceptInv, ShellReadsLine, history.expected # <<>>
             PROVE  shell'.line = history.expected
  OBVIOUS
<1>1. ptyWrite # <<>> /\ shell' = LineReplaced(shell, Head(ptyWrite).line)
  BY DEF ShellReadsLine
<1>2. Injected
  BY <1>1 DEF AcceptInv, ReplacementUnderway, ToSplice, Undisturbed, ToInject, Dropped
<1>3. Head(ptyWrite).line = history.expected
  BY <1>2 DEF Injected
<1>4. QED
  BY <1>1, <1>3 DEF LineReplaced, IInv, TypeOK, ShellState

(* A suggestion that is accepted when nothing is on its way leaves the     *)
(* line it should, on lines of one-byte characters without quoting: from   *)
(* the keystroke to the shell's next line nothing comes between the two    *)
(* looks that the stdin task takes at the popup, and the splice at byte    *)
(* offsets replaces the word before the cursor and keeps the rest          *)
(* (popup.rs:242-265, event_loop.rs:399-425).  The run wide_char shows     *)
(* that it does not on lines of longer characters.                         *)
THEOREM AcceptedWordReplaced == PlainLines => (Spec => AcceptReplacesWord)
<1> SUFFICES ASSUME PlainLines PROVE Spec => AcceptReplacesWord
  OBVIOUS
<1> DEFINE Replaces == ShellReadsLine /\ history.expected # <<>> => shell'.line = history.expected
<1>1. Init => AcceptInv
  BY AcceptInit
<1>2. IInv /\ AcceptInv /\ [Next]_vars => AcceptInv'
  BY AcceptNext
<1>3. IInv /\ AcceptInv => [Replaces]_vars
  BY ExpectedIsRead
<1>4. AcceptReplacesWord <=> [][Replaces]_vars
  BY DEF AcceptReplacesWord
<1> HIDE DEF Replaces
<1>5. QED
  BY <1>1, <1>2, <1>3, <1>4, SpecInv, PTL DEF Spec
=============================================================================
