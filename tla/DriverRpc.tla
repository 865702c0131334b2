------------------------------ MODULE DriverRpc ------------------------------
(***************************************************************************)
(* The umbrella's end of a driver connection and the driver it drives:     *)
(* client.rs (hello, one request at a time, drop), adapter.rs (connect,    *)
(* prefetch, live calls), wizard.rs (the two round trips of `toven init`), *)
(* process.rs (the watchdog and the child handle) and serve.rs.            *)
(*                                                                         *)
(* A frame is what its reader makes of it; a request that does not fit in  *)
(* the pipe is written only as fast as the driver reads.  The driver may   *)
(* wedge, die half-way through a frame, or answer nonsense.                *)
(***************************************************************************)
EXTENDS Naturals, Sequences

CONSTANTS
  Connect,      \* the hello and the prefetched calls of a `__serve` session
  MaxTrips,     \* bound: round trips of a session
  LargeSets     \* which requests do not fit in the pipe: one set is chosen

ASSUME RpcAssumption ==
  /\ MaxTrips \in Nat \ {0, 1}
  /\ Connect \in 1 .. MaxTrips
  /\ LargeSets \subseteq SUBSET (1 .. MaxTrips)

VARIABLES
  mode,       \* the session: "serve" or "init"
  large,      \* the requests that do not fit in the pipe
  at,         \* the client: idle, write, read, returned, drop, close, gone
  trip,       \* the round trip under way, or the last one
  watchdog,   \* off, armed, fired (about to kill), done
  reply,      \* what the write or the read came back with
  results,    \* what each round trip gave to its caller
  toDriver,   \* requests in the driver's stdin
  toClient,   \* frames in the driver's stdout
  hungUp,     \* the client has closed its two ends
  driver,     \* serving, answering, wedged, dead, reaped
  taken,      \* the request the driver holds
  killedIn    \* the round trip during which the watchdog killed the driver

client == <<at, trip, watchdog, reply, results>>
pipes == <<toDriver, toClient, hungUp>>
rpcVars == <<mode, large, client, pipes, driver, taken, killedIn>>

Trips == 1 .. MaxTrips
Shutdown == 0

\* What a complete frame can be: the answer, a typed error, a reply that does
\* not decode, one that decodes but answers something else, a welcome this
\* client cannot work with.
Complete == {"answer", "error", "garbled", "wrong", "incompatible"}
\* A length prefix out of bounds; a frame the driver did not live to finish.
Broken == {"oversized", "cut"}
Frames == [kind : Complete \cup Broken, trip : Trips]

NoReply == [kind |-> "none", trip |-> 0]
Eof == [kind |-> "eof", trip |-> 0]
BrokenPipe == [kind |-> "pipe", trip |-> 0]
Replies == Frames \cup {NoReply, Eof, BrokenPipe}

Faults == {"Timeout", "Malformed", "Transport", "Remote", "Conflict", "Unexpected"}
Results == [kind : {"none", "ok"} \cup Faults, trip : 0 .. MaxTrips]

Alive == driver \in {"serving", "answering", "wedged"}
Fired == watchdog = "done"

RpcTypeOK ==
  /\ mode \in {"serve", "init"} /\ large \in LargeSets
  /\ at \in {"idle", "write", "read", "returned", "drop", "close", "gone"}
  /\ trip \in 0 .. MaxTrips
  /\ watchdog \in {"off", "armed", "fired", "done"}
  /\ reply \in Replies
  /\ results \in [Trips -> Results]
  /\ toDriver \in Seq(0 .. MaxTrips) /\ Len(toDriver) <= MaxTrips + 1
  /\ toClient \in Seq(Frames) /\ Len(toClient) <= MaxTrips
  /\ hungUp \in BOOLEAN
  /\ driver \in {"serving", "answering", "wedged", "dead", "reaped"}
  /\ taken \in 0 .. MaxTrips /\ (driver = "serving" => taken = 0)
  /\ killedIn \in 0 .. MaxTrips

\* spawn: the child runs, its pipes are the client's.
RpcInit ==
  /\ mode \in {"serve", "init"} /\ large \in LargeSets
  /\ at = "idle" /\ trip = 0 /\ watchdog = "off" /\ reply = NoReply
  /\ results = [n \in Trips |-> NoReply]
  /\ toDriver = <<>> /\ toClient = <<>> /\ hungUp = FALSE
  /\ driver = "serving" /\ taken = 0 /\ killedIn = 0
-----------------------------------------------------------------------------
(* The client: one round trip. *)

\* connect asks all it needs at once, later calls come when PLAN needs them;
\* the wizard asks twice.
LastTrip == IF mode = "init" THEN 2 ELSE MaxTrips

\* `guarded` covers the write of the wizard too; recv_frame only its read.
StartTrip ==
  /\ at = "idle" /\ trip < LastTrip
  /\ trip' = trip + 1 /\ at' = "write" /\ reply' = NoReply
  /\ watchdog' = IF mode = "init" THEN "armed" ELSE "off"
  /\ UNCHANGED <<mode, large, results, pipes, driver, taken, killedIn>>

ReadArmed == IF mode = "init" THEN watchdog ELSE "armed"

WriteFits ==
  /\ at = "write" /\ Alive /\ trip \notin large
  /\ toDriver' = Append(toDriver, trip)
  /\ at' = "read" /\ watchdog' = ReadArmed
  /\ UNCHANGED <<mode, large, trip, reply, results, toClient, hungUp, driver, taken, killedIn>>

\* The driver reads the request as it is written, after those before it.
WriteLarge ==
  /\ at = "write" /\ driver = "serving" /\ trip \in large /\ toDriver = <<>>
  /\ driver' = "answering" /\ taken' = trip
  /\ at' = "read" /\ watchdog' = ReadArmed
  /\ UNCHANGED <<mode, large, trip, reply, results, pipes, killedIn>>

WriteFails ==
  /\ at = "write" /\ ~Alive
  /\ reply' = BrokenPipe /\ at' = "returned"
  /\ UNCHANGED <<mode, large, trip, watchdog, results, pipes, driver, taken, killedIn>>

\* read_frame.  Behind a bad prefix the stream is no longer cut into frames: a
\* later read finds the same debris.
ReadFrame ==
  /\ at = "read" /\ toClient # <<>>
  /\ Head(toClient).kind = "cut" => ~Alive
  /\ reply' = Head(toClient) /\ at' = "returned"
  /\ toClient' = IF Head(toClient).kind = "oversized" THEN toClient ELSE Tail(toClient)
  /\ UNCHANGED <<mode, large, trip, watchdog, results, toDriver, hungUp, driver, taken, killedIn>>

ReadEnds ==
  /\ at = "read" /\ toClient = <<>> /\ ~Alive
  /\ reply' = Eof /\ at' = "returned"
  /\ UNCHANGED <<mode, large, trip, watchdog, results, pipes, driver, taken, killedIn>>

\* Mutant: the end of the stream is a transport failure, whoever caused it.
ClassifyEofApart(late) ==
  IF reply.kind = "answer" THEN "ok"
  ELSE IF late /\ reply.kind \in Broken THEN "Timeout"
  ELSE CASE reply.kind \in {"eof", "pipe", "cut"} -> "Transport"
         [] reply.kind \in {"oversized", "garbled"} -> "Malformed"
         [] reply.kind = "error" -> "Remote"
         [] reply.kind = "incompatible" -> "Conflict"
         [] reply.kind = "wrong" -> "Unexpected"

\* classify_frame_outcome and its callers: a complete frame wins against a
\* watchdog that fired.
ClassifyServe(late) ==
  IF reply.kind = "answer" THEN "ok"
  ELSE IF late /\ reply.kind \notin Complete THEN "Timeout"
  ELSE CASE reply.kind \in {"eof", "pipe", "cut"} -> "Transport"
         [] reply.kind \in {"oversized", "garbled"} -> "Malformed"
         [] reply.kind = "error" -> "Remote"
         [] reply.kind = "incompatible" -> "Conflict"
         [] reply.kind = "wrong" -> IF trip = 1 THEN "Malformed" ELSE "Unexpected"

\* guarded and decode_offer, decode_result: whatever is not a wizard reply is
\* malformed, and a timeout if the watchdog fired.
ClassifyInit(late) ==
  CASE reply.kind = "answer" -> "ok"
    [] reply.kind \in {"error", "incompatible"} -> "Remote"
    [] OTHER -> IF late THEN "Timeout"
                ELSE IF reply.kind \in {"eof", "pipe"} THEN "Transport" ELSE "Malformed"

Classify(late) == IF mode = "init" THEN ClassifyInit(late) ELSE ClassifyServe(late)

\* connect and the wizard give the session up at the first fault, a live call
\* leaves the client to the next one.
GoesOn(kind) ==
  IF mode = "init" THEN kind = "ok" /\ trip < 2 ELSE kind = "ok" \/ trip > Connect

\* disarm tells the watchdog, joins its thread and only then reads the flag.
Disarm ==
  /\ at = "returned" /\ watchdog # "fired"
  /\ results' = [results EXCEPT ![trip] = [kind |-> Classify(Fired), trip |-> reply.trip]]
  /\ watchdog' = "off" /\ reply' = NoReply
  /\ at' = IF GoesOn(Classify(Fired)) THEN "idle" ELSE "drop"
  /\ UNCHANGED <<mode, large, trip, pipes, driver, taken, killedIn>>
-----------------------------------------------------------------------------
(* The watchdog thread. *)

\* The deadline races with everything up to the disarm.
Expire ==
  /\ watchdog = "armed"
  /\ watchdog' = "fired"
  /\ UNCHANGED <<mode, large, at, trip, reply, results, pipes, driver, taken, killedIn>>

\* Mutant: the deadline lets the read go and leaves the driver at its work.
UnblockOnly ==
  /\ watchdog = "fired"
  /\ watchdog' = "done" /\ at' = "returned" /\ reply' = Eof
  /\ UNCHANGED <<mode, large, trip, results, pipes, driver, taken, killedIn>>

KillDriver ==
  /\ watchdog = "fired"
  /\ watchdog' = "done"
  /\ driver' = IF Alive THEN "dead" ELSE driver
  /\ killedIn' = IF Alive THEN trip ELSE killedIn
  /\ UNCHANGED <<mode, large, at, trip, reply, results, pipes, taken>>
-----------------------------------------------------------------------------
(* Leaving. *)

\* The last live call was made, or the questionnaire was not answered: the
\* owner drops the session.
Abandon ==
  /\ at = "idle" /\ (trip >= Connect \/ (mode = "init" /\ trip = 1))
  /\ at' = "drop"
  /\ UNCHANGED <<mode, large, trip, watchdog, reply, results, pipes, driver, taken, killedIn>>

\* Drop: a last Shutdown, if the driver is there to get it, then the pipes.
HangUp ==
  /\ at = "drop"
  /\ toDriver' = IF mode = "serve" /\ Alive THEN Append(toDriver, Shutdown) ELSE toDriver
  /\ hungUp' = TRUE /\ at' = "close"
  /\ UNCHANGED <<mode, large, trip, watchdog, reply, results, toClient, driver, taken, killedIn>>

\* Mutant: the handle waits for the driver without killing it.
ReapOnly ==
  /\ at = "close" /\ ~Alive
  /\ driver' = "reaped" /\ at' = "gone"
  /\ UNCHANGED <<mode, large, trip, watchdog, reply, results, pipes, taken, killedIn>>

\* ChildHandle::drop kills and waits, whatever the driver is doing.
KillAndReap ==
  /\ at = "close"
  /\ driver' = "reaped" /\ at' = "gone"
  /\ UNCHANGED <<mode, large, trip, watchdog, reply, results, pipes, taken, killedIn>>
-----------------------------------------------------------------------------
(* The driver. *)

\* serve_requests: the Bye of a shutdown is best-effort.
TakeRequest ==
  /\ driver = "serving" /\ toDriver # <<>>
  /\ toDriver' = Tail(toDriver)
  /\ IF Head(toDriver) = Shutdown
     THEN driver' = "dead" /\ taken' = 0
     ELSE driver' = "answering" /\ taken' = Head(toDriver)
  /\ UNCHANGED <<mode, large, client, toClient, hungUp, killedIn>>

SeesEof ==
  /\ driver = "serving" /\ toDriver = <<>> /\ hungUp
  /\ driver' = "dead"
  /\ UNCHANGED <<mode, large, client, pipes, taken, killedIn>>

\* A rejected hello or probe and the wizard's last answer end the driver.
LastWords(kind) ==
  \/ mode = "serve" /\ kind = "error" /\ taken = 1
  \/ mode = "init" /\ (kind \in {"error", "incompatible"} \/ taken = 2)

\* The write fails once nobody is left to read.
Answer(kind) ==
  /\ driver = "answering"
  /\ kind = "incompatible" => taken = 1
  /\ toClient' = IF hungUp THEN toClient ELSE Append(toClient, [kind |-> kind, trip |-> taken])
  /\ driver' = IF hungUp \/ LastWords(kind) THEN "dead" ELSE "serving"
  /\ taken' = 0
  /\ UNCHANGED <<mode, large, client, toDriver, hungUp, killedIn>>

\* It died in the middle of its answer.
CutShort ==
  /\ driver = "answering" /\ ~hungUp
  /\ toClient' = Append(toClient, [kind |-> "cut", trip |-> taken])
  /\ driver' \in {"wedged", "dead"}
  /\ UNCHANGED <<mode, large, client, toDriver, hungUp, taken, killedIn>>

Wedge ==
  /\ driver \in {"serving", "answering"}
  /\ driver' = "wedged"
  /\ UNCHANGED <<mode, large, client, pipes, taken, killedIn>>

Crash ==
  /\ Alive
  /\ driver' = "dead"
  /\ UNCHANGED <<mode, large, client, pipes, taken, killedIn>>
-----------------------------------------------------------------------------
WatchdogStep == Expire \/ KillDriver

ClientStep ==
  \/ WriteFits \/ WriteLarge \/ WriteFails
  \/ ReadFrame \/ ReadEnds
  \/ Disarm
  \/ HangUp \/ KillAndReap

DriverStep ==
  \/ TakeRequest
  \/ SeesEof
  \/ \E kind \in Complete \cup {"oversized"} : Answer(kind)
  \/ CutShort
  \/ Wedge
  \/ Crash

RpcNext == ClientStep \/ WatchdogStep \/ StartTrip \/ Abandon \/ DriverStep

RpcSpec == RpcInit /\ [][RpcNext]_rpcVars

\* The two threads of the client run, and time passes; of the driver nothing
\* is assumed, nor of the person answering the questionnaire.
RpcLiveSpec == RpcSpec /\ WF_rpcVars(ClientStep) /\ WF_rpcVars(WatchdogStep)
-----------------------------------------------------------------------------
\* What a call returns is the driver's answer to that call, never to an
\* earlier one that timed out, failed or came late.  Frames have no id.
AnswersMatch == \A n \in Trips : results[n].kind = "ok" => results[n].trip = n

Answered(n) == results[n].kind # "none"

\* A driver the watchdog killed is reported as the timeout of the round trip
\* it was killed in, unless its whole reply got through; it is never taken for
\* a driver that failed by itself, and a timeout is never reported of a
\* driver that goes on.
KillIsReported ==
  \A n \in Trips : Answered(n) =>
    /\ killedIn = n => results[n].kind \notin {"Transport"}
    /\ results[n].kind = "Timeout" => ~Alive

\* "a blocked read cannot hang the synchronous PLAN spine": every read ends,
\* and the wizard's writes too; and whatever the driver does, dropping the
\* session ends and leaves no process.
NeverHangs ==
  /\ (at = "read") ~> (at # "read")
  /\ (at = "write" /\ mode = "init") ~> (at # "write")
  /\ (at = "drop") ~> (at = "gone" /\ driver = "reaped")
=============================================================================
