--------------------------- MODULE CGIHandlerProofs ---------------------------
(***************************************************************************)
(* For every size of the pipe and of the buffers, and every timeout: what  *)
(* a call of executeCGI holds is given back, a program is either waited    *)
(* for or told to stop, and what a response lacks is bounded.              *)
(***************************************************************************)
EXTENDS CGIHandler, TLAPS

\* What the call holds depends on where it is, and on nothing else.
HeldAt == [environment |-> {}, pipe |-> {"env"}, temp |-> {"env", "out0", "out1"},
           body |-> All, fork |-> All, raw |-> {"out0"}, wait |-> {"out0", "raw"},
           read |-> {"out0", "raw"}, clock |-> {"out0", "raw"}, parse |-> {"out0", "raw"}]
HeldWell == /\ pc # "returned" => held = HeldAt[pc] /\ status = 0
            /\ Returned

\* process_done says that the program was waited for, and only a call that has
\* forked has a program; parsing waits for it.
Before == {"environment", "pipe", "temp", "body", "fork"}
ChildWell == /\ done <=> child = "reaped"
             /\ pc = "parse" => done
             /\ pc \in Before => child = "none" /\ ~done
             /\ pc \in {"raw", "wait", "read", "clock", "parse"} => child # "none"
             /\ Signalled

\* Until the call gives up, the program's output is in the pipe and the file;
\* once the program has been waited for and the pipe read, little is left in it.
TailWell == /\ status \in {0, 200} => produced = piped + collected
            /\ done /\ (pc \in {"clock", "parse"} \/ status = 200) =>
                 piped = 0 \/ (collected >= BufSize /\ piped <= PipeSize - BufSize)
            /\ status = 200 => done

Inv == TypeOK /\ HeldWell /\ ChildWell /\ TailWell /\ Framed

\* Where the call may be.
Places == {"environment", "pipe", "temp", "body", "fork", "raw", "wait", "read", "clock",
           "parse", "returned"}

-----------------------------------------------------------------------------
\* The end of the header counts from the chunk it is in, which does not start
\* behind it, and is the file's first chunk if it lies within one header_buf.
LEMMA FoundSizeBounds ==
  ASSUME TypeOK, HeaderFound
  PROVE  /\ FoundSize \in Nat /\ FoundSize <= sep + 1
         /\ sep < HeaderBuf => FoundSize = sep + 1
<1> DEFINE q == (sep - 1) \div HeaderBuf
<1>1. /\ sep \in Nat /\ sep > 0 /\ HeaderBuf \in Nat /\ HeaderBuf > 1
  BY SizesAssumption DEF TypeOK, HeaderFound
<1>2. /\ q \in Int /\ q * HeaderBuf <= sep - 1 /\ sep - 1 < (q + 1) * HeaderBuf
  BY <1>1, SMTT(60)
<1>3. q >= 0
  BY <1>1, <1>2, SMTT(60)
<1>4. q * HeaderBuf \in Nat
  BY <1>1, <1>2, <1>3, SMTT(60)
<1>5. ASSUME sep < HeaderBuf PROVE q = 0
  BY <1>1, <1>2, <1>3, <1>5, SMTT(60)
<1>6. FoundSize = sep + 1 - q * HeaderBuf
  BY DEF FoundSize, HeaderChunk
<1>7. FoundSize \in Nat /\ FoundSize <= sep + 1
  <2> HIDE DEF q
  <2> QED BY <1>1, <1>2, <1>4, <1>6
<1>8. sep < HeaderBuf => FoundSize = sep + 1
  <2> HIDE DEF q
  <2> QED BY <1>1, <1>5, <1>6
<1> QED BY <1>7, <1>8

\* A call holds nothing that is not listed.
LEMMA HeldType ==
  ASSUME NEW p \in Places, NEW h, NEW st,
         p # "returned" => h = HeldAt[p],
         p = "returned" => h = IF st = 200 THEN {"raw"} ELSE {}
  PROVE  h \subseteq All \cup {"raw"}
<1>1. CASE p = "returned"
  BY <1>1
<1>2. CASE p # "returned"
  BY <1>2 DEF Places, HeldAt, All
<1> QED BY <1>1, <1>2

\* Before the call has done anything the invariant holds.
LEMMA InitInv == Init => Inv
<1> SUFFICES ASSUME Init PROVE Inv
  OBVIOUS
<1> USE SizesAssumption DEF Init
<1>1. TypeOK
  <2>1. held \subseteq All \cup {"raw"}
    OBVIOUS
  <2>2. /\ piped \in 0..PipeSize /\ produced \in 0..MaxOutput /\ collected \in 0..MaxOutput
        /\ elapsed \in 0..(Timeout + 1) /\ sep \in 0..MaxOutput
        /\ offset \in Nat /\ length \in Int
    OBVIOUS
  <2> QED BY <2>1, <2>2 DEF TypeOK
<1>2. HeldWell
  BY DEF HeldWell, HeldAt, Returned
<1>3. ChildWell
  BY DEF ChildWell, Before, Signalled
<1>4. TailWell /\ Framed
  BY DEF TailWell, Framed
<1> QED BY <1>1, <1>2, <1>3, <1>4 DEF Inv

-----------------------------------------------------------------------------
(* The steps of the call. *)

\* Up to fork() there is no program and no output.
LEMMA BeforeForkStep ==
  ASSUME Inv, CreateEnvArray \/ OpenPipe \/ MakeBodyFile \/ WriteBody
  PROVE  Inv'
<1> USE SizesAssumption
<1> USE DEF Inv, CreateEnvArray, OpenPipe, MakeBodyFile, WriteBody, Return, program, output
<1>1. HeldWell'
  BY DEF HeldWell, HeldAt, Returned, TypeOK, All
<1>2. TypeOK'
  <2>1. pc' \in Places /\ status' \in {0, 200, 500, 504} /\ signalled' \in BOOLEAN /\ done' \in BOOLEAN
    <3>1. pc' \in Places
      BY DEF TypeOK, Places
    <3>2. status' \in {0, 200, 500, 504}
      BY DEF TypeOK
    <3>3. signalled' \in BOOLEAN
      BY DEF TypeOK
    <3>4. done' \in BOOLEAN
      BY DEF TypeOK
    <3> QED BY <3>1, <3>2, <3>3, <3>4
  <2>2. child' \in {"none", "running", "zombie", "reaped"} /\ code' \in {"ok", "failed"}
    BY DEF TypeOK
  <2>3. /\ piped' \in 0..PipeSize /\ produced' \in 0..MaxOutput /\ collected' \in 0..MaxOutput
        /\ elapsed' \in 0..(Timeout + 1) /\ sep' \in 0..MaxOutput
        /\ offset' \in Nat /\ length' \in Int
    BY DEF TypeOK
  <2>4. held' \subseteq All \cup {"raw"}
    BY ONLY <1>1, <2>1, HeldType DEF HeldWell, Returned
  <2> QED BY <2>1, <2>2, <2>3, <2>4 DEF TypeOK, Places
<1>3. ChildWell'
  BY DEF ChildWell, Before, Signalled, TypeOK
<1>4. TailWell' /\ Framed'
  BY DEF TailWell, Framed, HeldWell, ChildWell, Before, TypeOK
<1> QED BY <1>1, <1>2, <1>3, <1>4

\* fork() hands the body and the pipe's writing end to the program, or fails and
\* everything is given back.
LEMMA ForkStep ==
  ASSUME Inv, Fork
  PROVE  Inv'
<1> USE SizesAssumption
<1> USE DEF Inv, Fork, Return, output
<1>1. HeldWell'
  BY DEF HeldWell, HeldAt, Returned, TypeOK, All
<1>2. TypeOK'
  <2>1. pc' \in Places /\ status' \in {0, 200, 500, 504} /\ signalled' \in BOOLEAN /\ done' \in BOOLEAN
    <3>1. pc' \in Places
      BY DEF TypeOK, Places
    <3>2. status' \in {0, 200, 500, 504}
      BY DEF TypeOK
    <3>3. signalled' \in BOOLEAN
      BY DEF TypeOK
    <3>4. done' \in BOOLEAN
      BY DEF TypeOK
    <3> QED BY <3>1, <3>2, <3>3, <3>4
  <2>2. child' \in {"none", "running", "zombie", "reaped"} /\ code' \in {"ok", "failed"}
    BY DEF TypeOK
  <2>3. /\ piped' \in 0..PipeSize /\ produced' \in 0..MaxOutput /\ collected' \in 0..MaxOutput
        /\ elapsed' \in 0..(Timeout + 1) /\ sep' \in 0..MaxOutput
        /\ offset' \in Nat /\ length' \in Int
    BY DEF TypeOK
  <2>4. held' \subseteq All \cup {"raw"}
    BY ONLY <1>1, <2>1, HeldType DEF HeldWell, Returned
  <2> QED BY <2>1, <2>2, <2>3, <2>4 DEF TypeOK, Places
<1>3. ChildWell'
  BY DEF ChildWell, Before, Signalled, TypeOK
<1>4. TailWell' /\ Framed'
  BY DEF TailWell, Framed, HeldWell, ChildWell, Before, TypeOK
<1> QED BY <1>1, <1>2, <1>3, <1>4

\* Without a file for the output the program is given up.
LEMMA MakeRawFileStep ==
  ASSUME Inv, MakeRawFile
  PROVE  Inv'
<1> USE SizesAssumption
<1> USE DEF Inv, MakeRawFile, GiveUp, Return, program, output
<1>1. HeldWell'
  BY DEF HeldWell, HeldAt, Returned, TypeOK, All
<1>2. TypeOK'
  <2>1. pc' \in Places /\ status' \in {0, 200, 500, 504} /\ signalled' \in BOOLEAN /\ done' \in BOOLEAN
    <3>1. pc' \in Places
      BY DEF TypeOK, Places
    <3>2. status' \in {0, 200, 500, 504}
      BY DEF TypeOK
    <3>3. signalled' \in BOOLEAN
      BY DEF TypeOK
    <3>4. done' \in BOOLEAN
      BY DEF TypeOK
    <3> QED BY <3>1, <3>2, <3>3, <3>4
  <2>2. child' \in {"none", "running", "zombie", "reaped"} /\ code' \in {"ok", "failed"}
    BY DEF TypeOK
  <2>3. /\ piped' \in 0..PipeSize /\ produced' \in 0..MaxOutput /\ collected' \in 0..MaxOutput
        /\ elapsed' \in 0..(Timeout + 1) /\ sep' \in 0..MaxOutput
        /\ offset' \in Nat /\ length' \in Int
    BY DEF TypeOK
  <2>4. held' \subseteq All \cup {"raw"}
    BY ONLY <1>1, <2>1, HeldType DEF HeldWell, Returned
  <2> QED BY <2>1, <2>2, <2>3, <2>4 DEF TypeOK, Places
<1>3. ChildWell'
  BY DEF ChildWell, Before, Signalled, TypeOK
<1>4. TailWell' /\ Framed'
  BY DEF TailWell, Framed, HeldWell, ChildWell, Before, TypeOK
<1> QED BY <1>1, <1>2, <1>3, <1>4

\* Waiting ends the program's life, and its failure ends the call.
LEMMA WaitStep ==
  ASSUME Inv, Wait
  PROVE  Inv'
<1> USE SizesAssumption
<1> USE DEF Inv, Wait, Return, output, AfterReaping
<1>1. HeldWell'
  BY DEF HeldWell, HeldAt, Returned, TypeOK, All
<1>2. TypeOK'
  <2>1. pc' \in Places /\ status' \in {0, 200, 500, 504} /\ signalled' \in BOOLEAN /\ done' \in BOOLEAN
    <3>1. pc' \in Places
      BY DEF TypeOK, Places
    <3>2. status' \in {0, 200, 500, 504}
      BY DEF TypeOK
    <3>3. signalled' \in BOOLEAN
      BY DEF TypeOK
    <3>4. done' \in BOOLEAN
      BY DEF TypeOK
    <3> QED BY <3>1, <3>2, <3>3, <3>4
  <2>2. child' \in {"none", "running", "zombie", "reaped"} /\ code' \in {"ok", "failed"}
    BY DEF TypeOK
  <2>3. /\ piped' \in 0..PipeSize /\ produced' \in 0..MaxOutput /\ collected' \in 0..MaxOutput
        /\ elapsed' \in 0..(Timeout + 1) /\ sep' \in 0..MaxOutput
        /\ offset' \in Nat /\ length' \in Int
    BY DEF TypeOK
  <2>4. held' \subseteq All \cup {"raw"}
    BY ONLY <1>1, <2>1, HeldType DEF HeldWell, Returned
  <2> QED BY <2>1, <2>2, <2>3, <2>4 DEF TypeOK, Places
<1>3. ChildWell'
  BY DEF ChildWell, Before, Signalled, TypeOK
<1>4. TailWell' /\ Framed'
  BY DEF TailWell, Framed, HeldWell, ChildWell, Before, TypeOK
<1> QED BY <1>1, <1>2, <1>3, <1>4

\* Reading takes from the pipe what it adds to the file.
LEMMA CollectStep ==
  ASSUME Inv, Collect
  PROVE  Inv'
<1> USE SizesAssumption
<1> USE DEF Inv, Collect, GiveUp, Return, resources
<1> DEFINE n == Least(piped, BufSize)
<1>1. n \in Nat /\ n <= piped /\ n <= BufSize /\ (n = piped \/ n = BufSize)
  BY DEF TypeOK, Least
<1>2. piped' = piped - n /\ (collected' = collected \/ (status' = 0 /\ collected' = collected + n))
  BY DEF HeldWell
<1> HIDE DEF n
<1>3. HeldWell'
  BY DEF HeldWell, HeldAt, Returned, TypeOK, All
<1>4. TypeOK'
  <2>1. pc' \in Places /\ status' \in {0, 200, 500, 504} /\ signalled' \in BOOLEAN /\ done' \in BOOLEAN
    <3>1. pc' \in Places
      BY DEF TypeOK, Places
    <3>2. status' \in {0, 200, 500, 504}
      BY DEF TypeOK
    <3>3. signalled' \in BOOLEAN
      BY DEF TypeOK
    <3>4. done' \in BOOLEAN
      BY DEF TypeOK
    <3> QED BY <3>1, <3>2, <3>3, <3>4
  <2>2. child' \in {"none", "running", "zombie", "reaped"} /\ code' \in {"ok", "failed"}
    BY DEF TypeOK
  <2>3. /\ piped' \in 0..PipeSize /\ produced' \in 0..MaxOutput /\ collected' \in 0..MaxOutput
        /\ elapsed' \in 0..(Timeout + 1) /\ sep' \in 0..MaxOutput
        /\ offset' \in Nat /\ length' \in Int
    BY <1>1, <1>2 DEF TypeOK, TailWell, HeldWell
  <2>4. held' \subseteq All \cup {"raw"}
    BY ONLY <1>3, <2>1, HeldType DEF HeldWell, Returned
  <2> QED BY <2>1, <2>2, <2>3, <2>4 DEF TypeOK, Places
<1>5. ChildWell'
  BY DEF ChildWell, Before, Signalled, TypeOK
<1>6. TailWell'
  <2>1. CASE status' = 0 /\ collected' = collected + n /\ pc' = "clock"
    <3>1. produced' = piped' + collected'
      BY <1>1, <1>2, <2>1 DEF TailWell, HeldWell, TypeOK
    <3>2. piped' = 0 \/ (collected' >= BufSize /\ piped' <= PipeSize - BufSize)
      BY <1>1, <1>2, <2>1 DEF TypeOK
    <3> QED BY <2>1, <3>1, <3>2 DEF TailWell
  <2>2. CASE status' = 500 /\ pc' = "returned"
    BY <2>2 DEF TailWell
  <2> QED BY <2>1, <2>2 DEF HeldWell, n
<1>7. Framed'
  BY DEF HeldWell, Framed, TypeOK
<1> QED BY <1>3, <1>4, <1>5, <1>6, <1>7

\* An empty pipe of a program that was waited for ends the reading.
LEMMA CollectNothingStep ==
  ASSUME Inv, CollectNothing
  PROVE  Inv'
<1> USE SizesAssumption
<1> USE DEF Inv, CollectNothing, GiveUp, Return, resources, program, output
<1>1. HeldWell'
  BY DEF HeldWell, HeldAt, Returned, TypeOK, All
<1>2. TypeOK'
  <2>1. pc' \in Places /\ status' \in {0, 200, 500, 504} /\ signalled' \in BOOLEAN /\ done' \in BOOLEAN
    <3>1. pc' \in Places
      BY DEF TypeOK, Places
    <3>2. status' \in {0, 200, 500, 504}
      BY DEF TypeOK
    <3>3. signalled' \in BOOLEAN
      BY DEF TypeOK
    <3>4. done' \in BOOLEAN
      BY DEF TypeOK
    <3> QED BY <3>1, <3>2, <3>3, <3>4
  <2>2. child' \in {"none", "running", "zombie", "reaped"} /\ code' \in {"ok", "failed"}
    BY DEF TypeOK
  <2>3. /\ piped' \in 0..PipeSize /\ produced' \in 0..MaxOutput /\ collected' \in 0..MaxOutput
        /\ elapsed' \in 0..(Timeout + 1) /\ sep' \in 0..MaxOutput
        /\ offset' \in Nat /\ length' \in Int
    BY DEF TypeOK
  <2>4. held' \subseteq All \cup {"raw"}
    BY ONLY <1>1, <2>1, HeldType DEF HeldWell, Returned
  <2> QED BY <2>1, <2>2, <2>3, <2>4 DEF TypeOK, Places
<1>3. ChildWell'
  BY DEF ChildWell, Before, Signalled, TypeOK
<1>4. TailWell' /\ Framed'
  BY DEF TailWell, Framed, HeldWell, ChildWell, Before, TypeOK
<1> QED BY <1>1, <1>2, <1>3, <1>4

\* A timeout gives the program up.
LEMMA LookAtClockStep ==
  ASSUME Inv, LookAtClock
  PROVE  Inv'
<1> USE SizesAssumption
<1> USE DEF Inv, LookAtClock, GiveUp, Return, resources, program, output
<1>1. HeldWell'
  BY DEF HeldWell, HeldAt, Returned, TypeOK, All
<1>2. TypeOK'
  <2>1. pc' \in Places /\ status' \in {0, 200, 500, 504} /\ signalled' \in BOOLEAN /\ done' \in BOOLEAN
    <3>1. pc' \in Places
      BY DEF TypeOK, Places
    <3>2. status' \in {0, 200, 500, 504}
      BY DEF TypeOK
    <3>3. signalled' \in BOOLEAN
      BY DEF TypeOK
    <3>4. done' \in BOOLEAN
      BY DEF TypeOK
    <3> QED BY <3>1, <3>2, <3>3, <3>4
  <2>2. child' \in {"none", "running", "zombie", "reaped"} /\ code' \in {"ok", "failed"}
    BY DEF TypeOK
  <2>3. /\ piped' \in 0..PipeSize /\ produced' \in 0..MaxOutput /\ collected' \in 0..MaxOutput
        /\ elapsed' \in 0..(Timeout + 1) /\ sep' \in 0..MaxOutput
        /\ offset' \in Nat /\ length' \in Int
    BY DEF TypeOK
  <2>4. held' \subseteq All \cup {"raw"}
    BY ONLY <1>1, <2>1, HeldType DEF HeldWell, Returned
  <2> QED BY <2>1, <2>2, <2>3, <2>4 DEF TypeOK, Places
<1>3. ChildWell'
  BY DEF ChildWell, Before, Signalled, TypeOK
<1>4. TailWell' /\ Framed'
  BY DEF TailWell, Framed, HeldWell, ChildWell, Before, TypeOK
<1> QED BY <1>1, <1>2, <1>3, <1>4

\* Parsing sets the response up, or gives everything back.
LEMMA ParseStep ==
  ASSUME Inv, ParseCGIOutput
  PROVE  Inv'
<1> USE SizesAssumption
<1> USE DEF Inv, ParseCGIOutput, Return, program
<1>1. HeaderFound => FoundSize \in Nat /\ FoundSize <= collected
  BY FoundSizeBounds DEF HeaderFound, TypeOK
<1>2. HeldWell'
  BY DEF HeldWell, HeldAt, Returned, TypeOK, All
<1>3. TypeOK'
  <2>1. pc' \in Places /\ status' \in {0, 200, 500, 504} /\ signalled' \in BOOLEAN /\ done' \in BOOLEAN
    <3>1. pc' \in Places
      BY DEF TypeOK, Places
    <3>2. status' \in {0, 200, 500, 504}
      BY DEF TypeOK
    <3>3. signalled' \in BOOLEAN
      BY DEF TypeOK
    <3>4. done' \in BOOLEAN
      BY DEF TypeOK
    <3> QED BY <3>1, <3>2, <3>3, <3>4
  <2>2. child' \in {"none", "running", "zombie", "reaped"} /\ code' \in {"ok", "failed"}
    BY DEF TypeOK
  <2>3. /\ piped' \in 0..PipeSize /\ produced' \in 0..MaxOutput /\ collected' \in 0..MaxOutput
        /\ elapsed' \in 0..(Timeout + 1) /\ sep' \in 0..MaxOutput
        /\ offset' \in Nat /\ length' \in Int
    BY <1>1 DEF TypeOK
  <2>4. held' \subseteq All \cup {"raw"}
    BY ONLY <1>2, <2>1, HeldType DEF HeldWell, Returned
  <2> QED BY <2>1, <2>2, <2>3, <2>4 DEF TypeOK, Places
<1>4. ChildWell'
  BY DEF ChildWell, Before, Signalled, TypeOK
<1>5. TailWell'
  BY DEF TailWell, HeldWell, ChildWell, TypeOK
<1>6. Framed'
  BY <1>1, FoundSizeBounds DEF Framed, TypeOK
<1> QED BY <1>2, <1>3, <1>4, <1>5, <1>6

-----------------------------------------------------------------------------
(* The steps of the program and the clock. *)

\* Neither the program nor the clock touches what the call holds.
LEMMA EnvironmentStep ==
  ASSUME Inv, Program \/ Tick
  PROVE  Inv'
<1> USE SizesAssumption
<1> USE DEF Inv, Program, ProgramWrites, ProgramEnds, Tick, resources, program, output
<1>1. TypeOK'
  BY DEF TypeOK
<1>2. HeldWell'
  BY DEF HeldWell, HeldAt, Returned, TypeOK
<1>3. ChildWell'
  BY DEF ChildWell, Before, Signalled, TypeOK
<1>4. TailWell'
  BY DEF TailWell, ChildWell, TypeOK
<1>5. Framed'
  BY DEF Framed
<1> QED BY <1>1, <1>2, <1>3, <1>4, <1>5

\* The inductive invariant holds at every step.
LEMMA Invariance == Spec => []Inv
<1>1. Inv /\ [Next]_vars => Inv'
  <2> SUFFICES ASSUME Inv, [Next]_vars PROVE Inv'
    OBVIOUS
  <2>1. CASE CreateEnvArray \/ OpenPipe \/ MakeBodyFile \/ WriteBody
    BY <2>1, BeforeForkStep
  <2>2. CASE Fork
    BY <2>2, ForkStep
  <2>3. CASE MakeRawFile
    BY <2>3, MakeRawFileStep
  <2>4. CASE Wait
    BY <2>4, WaitStep
  <2>5. CASE Collect
    BY <2>5, CollectStep
  <2>6. CASE CollectNothing
    BY <2>6, CollectNothingStep
  <2>7. CASE LookAtClock
    BY <2>7, LookAtClockStep
  <2>8. CASE ParseCGIOutput
    BY <2>8, ParseStep
  <2>9. CASE Program \/ Tick
    BY <2>9, EnvironmentStep
  <2>10. CASE UNCHANGED vars
    BY <2>10 DEF Inv, TypeOK, HeldWell, Returned, ChildWell, Signalled, TailWell, Framed, vars
  <2> QED BY <2>1, <2>2, <2>3, <2>4, <2>5, <2>6, <2>7, <2>8, <2>9, <2>10 DEF Next, Call
<1> QED BY InitInv, <1>1, PTL DEF Spec

-----------------------------------------------------------------------------
\* Every variable of the call keeps its type.
THEOREM TypeCorrect == Spec => []TypeOK
BY Invariance, PTL DEF Inv

\* On every path the call gives back its environment, its descriptors and its
\* temporary file, whichever step failed.
THEOREM NothingKept == Spec => []Returned
<1>1. Inv => Returned
  BY DEF Inv, HeldWell
<1> QED BY Invariance, <1>1, PTL

\* No program is left running that was not told to stop.
THEOREM NoneForgotten == Spec => []Signalled
<1>1. Inv => Signalled
  BY DEF Inv, ChildWell
<1> QED BY Invariance, <1>1, PTL

\* A response lacks at most what the pipe holds beyond one read().
THEOREM TailBounded == Spec => []OnlyTailLost
<1>1. Inv => OnlyTailLost
  BY SizesAssumption DEF Inv, TailWell, OnlyTailLost, TypeOK
<1> QED BY Invariance, <1>1, PTL

\* The Content-Length of a response is what its descriptor still gives.
THEOREM WellFramed == Spec => []Framed
BY Invariance, PTL DEF Inv

=============================================================================
