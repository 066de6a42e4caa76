------------------------------ MODULE CGIHandler ------------------------------
(***************************************************************************)
(* One call of CGIHandler::executeCGI: the resources it takes and gives    *)
(* back on every path, the program it forks, and the race between          *)
(* waitpid(), read() and the clock in handleCGIOutput.  The program and    *)
(* the clock are the environment.                                          *)
(*                                                                         *)
(* Of the program's output only amounts are kept, and the place of the     *)
(* two bytes that end its header, the only empty line of the output.       *)
(* Status 200 is a response made of the output, whatever code its Status   *)
(* field sets.                                                             *)
(***************************************************************************)
EXTENDS Integers

CONSTANTS
  BufSize,    \* CGI_BUFSIZE, the most one read() of the pipe gives
  PipeSize,   \* CGI_PIPE_BUFSIZE, what the pipe holds
  HeaderBuf,  \* size of parseCGIOutput's header_buf
  Timeout,    \* CGI_TIMEOUT
  MaxOutput   \* bound: bytes the program writes

ASSUME SizesAssumption ==
  /\ BufSize \in Nat \ {0} /\ PipeSize \in Nat \ {0} /\ HeaderBuf \in Nat \ {0, 1}
  /\ Timeout \in Nat /\ MaxOutput \in Nat

VARIABLES
  pc,         \* where the call is
  held,       \* what it holds: environment, descriptors, the body's file
  status,     \* of the response, 0 before there is one
  child,      \* "none", "running", "zombie" or "reaped"
  code,       \* how the program ends: "ok", or "failed" (also by a signal)
  signalled,  \* SIGTERM was sent to the program
  done,       \* process_done
  piped,      \* bytes in the pipe
  produced,   \* bytes the program wrote
  collected,  \* raw_bytes, the bytes in the file behind raw_fd
  elapsed,    \* time(NULL) - start_time
  sep,        \* where the header's end starts in the output (0: nowhere)
  offset,     \* where the response's descriptor stands
  length      \* the response's Content-Length

resources == <<held, status, signalled>>
output == <<collected, sep, offset, length>>
program == <<child, code, piped, produced>>
vars == <<pc, held, status, child, code, signalled, done, piped, produced,
          collected, elapsed, sep, offset, length>>

Init ==
  /\ pc = "environment" /\ held = {} /\ status = 0
  /\ child = "none" /\ code = "ok" /\ signalled = FALSE /\ done = FALSE
  /\ piped = 0 /\ produced = 0 /\ collected = 0 /\ elapsed = 0
  /\ sep \in 0..MaxOutput /\ offset = 0 /\ length = 0

Least(a, b) == IF a < b THEN a ELSE b

\* Return with this status, giving back what is in F.
Return(s, F) == pc' = "returned" /\ status' = s /\ held' = held \ F
-----------------------------------------------------------------------------
(* executeCGI up to fork(): every step may fail. *)

CreateEnvArray ==
  /\ pc = "environment"
  /\ \/ Return(500, {})
     \/ pc' = "pipe" /\ held' = {"env"} /\ UNCHANGED status
  /\ UNCHANGED <<signalled, done, elapsed, program, output>>

OpenPipe ==
  /\ pc = "pipe"
  /\ \/ Return(500, {"env"})
     \/ pc' = "temp" /\ held' = held \cup {"out0", "out1"} /\ UNCHANGED status
  /\ UNCHANGED <<signalled, done, elapsed, program, output>>

MakeBodyFile ==
  /\ pc = "temp"
  /\ \/ Return(500, {"env", "out0", "out1"})
     \/ pc' = "body" /\ held' = held \cup {"body", "bodyFile"} /\ UNCHANGED status
  /\ UNCHANGED <<signalled, done, elapsed, program, output>>

KeepFile == {"env", "body", "out0", "out1"}   \* mutant: unlink() is forgotten
All == {"env", "body", "out0", "out1", "bodyFile"}

WriteBody ==
  /\ pc = "body"
  /\ \/ Return(500, All)
     \/ pc' = "fork" /\ UNCHANGED <<held, status>>
  /\ UNCHANGED <<signalled, done, elapsed, program, output>>

Fork ==
  /\ pc = "fork"
  /\ \/ Return(500, All) /\ UNCHANGED child
     \/ /\ pc' = "raw" /\ child' = "running" /\ UNCHANGED status
        /\ held' = held \ {"env", "body", "out1", "bodyFile"}
  /\ UNCHANGED <<signalled, done, elapsed, code, piped, produced, output>>

-----------------------------------------------------------------------------
(* handleCGIOutput.  executeCGI closes the pipe when it returns. *)

\* mutant: the program is left alone
GiveUpQuietly(s) == Return(s, {"raw", "out0"}) /\ UNCHANGED signalled
\* Return without the program having ended.
GiveUp(s) == Return(s, {"raw", "out0"}) /\ signalled' = TRUE

MakeRawFile ==
  /\ pc = "raw"
  /\ \/ GiveUp(500)
     \/ pc' = "wait" /\ held' = held \cup {"raw"} /\ UNCHANGED <<status, signalled>>
  /\ UNCHANGED <<done, elapsed, program, output>>

ParseAtOnce == "parse"   \* mutant: nothing is read once the program has ended
AfterReaping == "read"

\* waitpid(WNOHANG)
Wait ==
  /\ pc = "wait"
  /\ IF child = "zombie"
       THEN /\ child' = "reaped" /\ done' = TRUE
            /\ IF code = "ok" THEN pc' = AfterReaping /\ UNCHANGED <<held, status>>
                              ELSE Return(500, {"raw", "out0"})
       ELSE pc' = "read" /\ UNCHANGED <<child, done, held, status>>
  /\ UNCHANGED <<signalled, elapsed, code, piped, produced, output>>

\* A read() that gives bytes, and the write() of them to raw_fd, which may fail.
Collect ==
  LET n == Least(piped, BufSize) IN
  /\ pc = "read" /\ piped > 0
  /\ piped' = piped - n
  /\ \/ GiveUp(500) /\ UNCHANGED collected
     \/ pc' = "clock" /\ collected' = collected + n /\ UNCHANGED resources
  /\ UNCHANGED <<done, elapsed, child, code, produced, sep, offset, length>>

\* EOF ends the loop if the program has been waited for; without EOF read()
\* gives EAGAIN, or an error.
CollectNothing ==
  /\ pc = "read" /\ piped = 0
  /\ \/ /\ pc' = IF done THEN "parse" ELSE "clock"
        /\ UNCHANGED resources
     \/ GiveUp(500)
  /\ UNCHANGED <<done, elapsed, program, output>>

NeverExpired == FALSE   \* mutant
Expired == elapsed > Timeout

LookAtClock ==
  /\ pc = "clock"
  /\ IF Expired THEN GiveUp(504)
                ELSE pc' = (IF done THEN "parse" ELSE "wait") /\ UNCHANGED resources
  /\ UNCHANGED <<done, elapsed, program, output>>

\* The chunk of header_buf in which both bytes of the header's end are, if the
\* file holds them.
HeaderChunk == (sep - 1) \div HeaderBuf
HeaderFound == /\ sep > 0 /\ sep < collected
               /\ sep \div HeaderBuf = HeaderChunk
ShortHeader == sep   \* mutant: the header's end is one byte long
\* Relative to that chunk, not to the file.
FoundSize == sep + 1 - HeaderChunk * HeaderBuf

ParseCGIOutput ==
  /\ pc = "parse"
  /\ IF HeaderFound
       THEN /\ Return(200, {"out0"})
            /\ offset' = FoundSize /\ length' = collected - FoundSize
       ELSE Return(500, {"raw", "out0"}) /\ UNCHANGED <<offset, length>>
  /\ UNCHANGED <<signalled, done, elapsed, collected, sep, program>>

-----------------------------------------------------------------------------
(* The program and the clock. *)

\* A write() of the program, as far as the pipe has room.
ProgramWrites(n) ==
  /\ child = "running" /\ "out0" \in held
  /\ piped + n <= PipeSize /\ produced + n <= MaxOutput
  /\ piped' = piped + n /\ produced' = produced + n
  /\ UNCHANGED <<pc, resources, child, code, done, elapsed, output>>

\* It ends: by itself, or by SIGTERM, which it may ignore.
ProgramEnds(how) ==
  /\ child = "running" /\ child' = "zombie" /\ code' = how
  /\ UNCHANGED <<pc, resources, done, piped, produced, elapsed, output>>

Tick ==
  /\ pc \in {"wait", "read", "clock"} /\ elapsed <= Timeout
  /\ elapsed' = elapsed + 1
  /\ UNCHANGED <<pc, resources, done, program, output>>

Call == \/ CreateEnvArray \/ OpenPipe \/ MakeBodyFile \/ WriteBody \/ Fork \/ MakeRawFile
        \/ Wait \/ Collect \/ CollectNothing \/ LookAtClock \/ ParseCGIOutput
Program == (\E n \in 1..PipeSize : ProgramWrites(n)) \/ \E how \in {"ok", "failed"} : ProgramEnds(how)

Next == Call \/ Program \/ Tick
Spec == Init /\ [][Next]_vars

\* The call runs, and time passes; the program need not do anything.
FairSpec == Spec /\ WF_vars(Call) /\ WF_vars(Tick)

-----------------------------------------------------------------------------
\* Every variable has its type, and no byte is counted twice or lost between
\* the pipe and the file until the call gives up.
TypeOK ==
  /\ pc \in {"environment", "pipe", "temp", "body", "fork", "raw", "wait", "read", "clock",
             "parse", "returned"}
  /\ held \subseteq All \cup {"raw"} /\ status \in {0, 200, 500, 504}
  /\ child \in {"none", "running", "zombie", "reaped"} /\ code \in {"ok", "failed"}
  /\ signalled \in BOOLEAN /\ done \in BOOLEAN
  /\ piped \in 0..PipeSize /\ produced \in 0..MaxOutput /\ collected \in 0..MaxOutput
  /\ elapsed \in 0..(Timeout + 1)
  /\ sep \in 0..MaxOutput /\ offset \in Nat /\ length \in Int

\* Whichever step failed or timed out, the call gives back its environment,
\* descriptors and temporary file; a response that streams keeps raw_fd.
Returned == pc = "returned" => held = IF status = 200 THEN {"raw"} ELSE {}

\* A program that is not waited for was told to stop, on every path that gives
\* it up.
Signalled == pc = "returned" /\ child \in {"running", "zombie"} => signalled

\* What a response lacks of the output is what was in the pipe beyond one
\* read() when the program ended: nothing, if the pipe holds no more than that.
OnlyTailLost ==
  status = 200 => \/ collected = produced
                  \/ collected >= BufSize /\ produced - collected <= PipeSize - BufSize

\* The Content-Length of a response is what its descriptor still gives, and the
\* body starts right after a header that ends in the first chunk.
Framed ==
  status = 200 => /\ length >= 0 /\ offset + length = collected
                  /\ sep < HeaderBuf => offset = sep + 1

\* The call returns, whatever the program does: the whole server waits for it.
Returns == <>(pc = "returned")

=============================================================================
