----------------------------- MODULE EventStream -----------------------------
(* createSseClient: a stream of server-sent events that reconnects when it    *)
(* breaks.  frontend/src/client/core/serverSentEvents.gen.ts.                *)
(* The server sends numbered events; an event is a few lines and an empty    *)
(* line, and the network delivers them cut anywhere, also between the CR and *)
(* the LF of a line's end.  A cut within the text of a line changes nothing: *)
(* the text stays in the buffer until its line ends.                         *)
EXTENDS Naturals, Sequences, SequencesExt

CONSTANTS
    MaxEvents,       \* bound: events the server has to send
    DefaultDelay, MaxDelay,  \* sseDefaultRetryDelay, sseMaxRetryDelay
    SentDelay,       \* what the first event says of the delay
    RetryAttempts,   \* values of sseMaxRetryAttempts; Unlimited if undefined
    MaxAttempts,     \* bound: attempts are counted up to here
    Unlimited

ASSUMPTION StreamBounds == /\ MaxEvents \in Nat /\ MaxAttempts \in Nat \ {0}
                           /\ {DefaultDelay, MaxDelay, SentDelay} \subseteq Nat
                           /\ Unlimited \notin Nat
                           /\ RetryAttempts \subseteq Nat \cup {Unlimited}

VARIABLES
    sseMaxRetryAttempts,
    phase,        \* where the generator stands
    aborted,      \* signal.aborted
    attempt,
    retryDelay,
    delay,        \* of the sleep under way
    lastEventId,  \* 0: undefined
    wire,         \* tokens sent by the server, not read yet
    buffer,       \* tokens read, not yet cut into events
    chunks,       \* events cut off, not yet handled
    received,     \* events yielded to the consumer, in order
    refused,      \* events responseValidator threw on
    torn          \* history: a read has ended between a CR and its LF

streamVars == <<sseMaxRetryAttempts, phase, aborted, attempt, retryDelay, delay,
                lastEventId, wire, buffer, chunks, received, refused, torn>>

\* Tokens: [line, of] is a field of an event; End is the end of a line, of which the
\* server is free to make a CR, a LF or both; Lf is the LF of a CR LF cut in two.
End == [line |-> "end", of |-> 0]
Lf == [line |-> "LF", of |-> 0]
Line(name, n) == [line |-> name, of |-> n]
Event(n) == (IF n = 1 THEN <<Line("retry:", SentDelay), End>> ELSE <<>>)
            \o <<Line("id:", n), End, Line("data:", n), End, End>>

EventIds == 1..MaxEvents
Parts == {Line(name, n) : name \in {"id:", "data:"}, n \in EventIds}
         \cup {Line("retry:", SentDelay), End}

StreamTypeOK ==
    /\ phase \in {"none", "starting", "connecting", "reading", "sleeping", "ended"}
    /\ aborted \in BOOLEAN
    /\ attempt \in 0..MaxAttempts
    /\ sseMaxRetryAttempts \in RetryAttempts
    /\ retryDelay \in Nat
    /\ delay \in 0..MaxDelay
    /\ lastEventId \in 0..MaxEvents
    /\ wire \in Seq(Parts \cup {Lf}) /\ buffer \in Seq(Parts)
    /\ chunks \in Seq(Seq(Parts))
    /\ received \in Seq(EventIds)
    /\ refused \subseteq EventIds
    /\ torn \in BOOLEAN
    /\ phase # "reading" => wire = <<>> /\ buffer = <<>> /\ chunks = <<>>

StreamInit ==
    /\ sseMaxRetryAttempts \in RetryAttempts
    /\ phase = "none" /\ aborted = FALSE
    /\ attempt = 0 /\ retryDelay = DefaultDelay /\ delay = 0
    /\ lastEventId = 0
    /\ wire = <<>> /\ buffer = <<>> /\ chunks = <<>>
    /\ received = <<>> /\ refused = {} /\ torn = FALSE
---------------------------------------------------------------------------
Closed == wire' = <<>> /\ buffer' = <<>> /\ chunks' = <<>>

Subscribe ==
    /\ phase = "none"
    /\ phase' = "starting"
    /\ UNCHANGED <<sseMaxRetryAttempts, aborted, attempt, retryDelay, delay, lastEventId,
                   wire, buffer, chunks, received, refused, torn>>

\* The consumer is through with the stream; the reader is cancelled, a sleep is not.
Abort ==
    /\ phase \notin {"none", "ended"}
    /\ aborted' = TRUE
    /\ UNCHANGED <<sseMaxRetryAttempts, phase, attempt, retryDelay, delay, lastEventId,
                   wire, buffer, chunks, received, refused, torn>>

\* Mutant: the signal is looked at before the first connection only.
LoopIgnoringAbort ==
    /\ phase = "starting"
    /\ IF aborted /\ attempt = 0
       THEN phase' = "ended" /\ UNCHANGED attempt
       ELSE /\ phase' = "connecting"
            /\ attempt' = IF attempt = MaxAttempts THEN attempt ELSE attempt + 1
    /\ UNCHANGED <<sseMaxRetryAttempts, aborted, retryDelay, delay, lastEventId,
                   wire, buffer, chunks, received, refused, torn>>

\* The head of the loop.
Loop ==
    /\ phase = "starting"
    /\ IF aborted
       THEN phase' = "ended" /\ UNCHANGED attempt
       ELSE /\ phase' = "connecting"
            /\ attempt' = IF attempt = MaxAttempts THEN attempt ELSE attempt + 1
    /\ UNCHANGED <<sseMaxRetryAttempts, aborted, retryDelay, delay, lastEventId,
                   wire, buffer, chunks, received, refused, torn>>

\* Mutant: Last-Event-ID is not sent.
ConnectedFromStart ==
    /\ phase = "connecting" /\ ~aborted
    /\ phase' = "reading"
    /\ wire' = FlattenSeq([n \in EventIds |-> Event(n)])
    /\ UNCHANGED <<sseMaxRetryAttempts, aborted, attempt, retryDelay, delay, lastEventId,
                   buffer, chunks, received, refused, torn>>

\* The server goes on after Last-Event-ID.
Connected ==
    /\ phase = "connecting" /\ ~aborted
    /\ phase' = "reading"
    /\ wire' = FlattenSeq([n \in 1..(MaxEvents - lastEventId) |-> Event(lastEventId + n)])
    /\ UNCHANGED <<sseMaxRetryAttempts, aborted, attempt, retryDelay, delay, lastEventId,
                   buffer, chunks, received, refused, torn>>

CutToken(parts, next) ==
    IF next = End /\ Last(parts) # <<>> /\ Last(Last(parts)) = End
    THEN Append([parts EXCEPT ![Len(parts)] = Front(@)], <<>>)
    ELSE [parts EXCEPT ![Len(parts)] = Append(@, next)]

\* Cut at every empty line; what follows the last one stays.
Cut(text) == FoldLeft(CutToken, << <<>> >>, text)

\* \r\n? becomes \n in what has been read so far: whatever ended a line is its end,
\* and a LF read after its CR had become one is another.
Normalised(text) == [i \in DOMAIN text |-> IF text[i] = Lf THEN End ELSE text[i]]

\* reader.read(): some of what has come, which may end within the end of a line.  The
\* next read waits until the events cut off have been handled.
Read(n, within) ==
    /\ phase = "reading" /\ ~aborted
    /\ chunks = <<>> /\ n \in 1..Len(wire)
    /\ within => wire[n] = End
    /\ LET parts == Cut(buffer \o Normalised(SubSeq(wire, 1, n)))
       IN  chunks' = Front(parts) /\ buffer' = Last(parts)
    /\ wire' = (IF within THEN <<Lf>> ELSE <<>>) \o SubSeq(wire, n + 1, Len(wire))
    /\ torn' = (torn \/ within)
    /\ UNCHANGED <<sseMaxRetryAttempts, phase, aborted, attempt, retryDelay, delay,
                   lastEventId, received, refused>>

\* Mutant: the cap is forgotten.
BackoffUncapped(base) == base * 2 ^ (attempt - 1)

\* Doubled at each attempt, up to the cap.
Backoff(base) == LET grown == base * 2 ^ (attempt - 1)
                 IN  IF grown < MaxDelay THEN grown ELSE MaxDelay

\* The catch clause.
Failed(base) ==
    /\ Closed
    /\ IF sseMaxRetryAttempts # Unlimited /\ attempt >= sseMaxRetryAttempts
       THEN phase' = "ended" /\ UNCHANGED delay
       ELSE phase' = "sleeping" /\ delay' = Backoff(base)

\* The last of the lines of a name counts.
LastOf(chunk, name, otherwise) ==
    LET lines == {i \in DOMAIN chunk : chunk[i].line = name}
    IN  IF lines = {} THEN otherwise ELSE chunk[Max(lines)].of

IdOf(chunk) == LastOf(chunk, "id:", lastEventId)
DelayOf(chunk) == LastOf(chunk, "retry:", retryDelay)

\* The data lines make one value, if there are any.
DataOf(chunk) ==
    IF \E i \in DOMAIN chunk : chunk[i].line = "data:"
    THEN <<LastOf(chunk, "data:", 0)>> ELSE <<>>

\* Mutant: the id is noted for all the events that were read with this one.
HandleNotingLast ==
    /\ chunks # <<>>
    /\ lastEventId' = IdOf(Last(chunks))
    /\ retryDelay' = DelayOf(Head(chunks))
    /\ \/ /\ received' = received \o DataOf(Head(chunks))
          /\ chunks' = Tail(chunks)
          /\ UNCHANGED <<phase, delay, wire, buffer, refused>>
       \/ /\ DataOf(Head(chunks)) # <<>>
          /\ refused' = refused \cup {DataOf(Head(chunks))[1]}
          /\ Failed(DelayOf(Head(chunks)))
          /\ UNCHANGED received
    /\ UNCHANGED <<sseMaxRetryAttempts, aborted, attempt, torn>>

\* One event: its id is noted, then its data are validated and yielded.  The
\* validator may throw, which ends the connection.
Handle ==
    /\ chunks # <<>>
    /\ lastEventId' = IdOf(Head(chunks))
    /\ retryDelay' = DelayOf(Head(chunks))
    /\ \/ /\ received' = received \o DataOf(Head(chunks))
          /\ chunks' = Tail(chunks)
          /\ UNCHANGED <<phase, delay, wire, buffer, refused>>
       \/ /\ DataOf(Head(chunks)) # <<>>
          /\ refused' = refused \cup {DataOf(Head(chunks))[1]}
          /\ Failed(DelayOf(Head(chunks)))
          /\ UNCHANGED received
    /\ UNCHANGED <<sseMaxRetryAttempts, aborted, attempt, torn>>

\* The connection is refused or breaks, or the fetch is aborted: the body it
\* was reading may fail before the cancelled reader is done.
Break ==
    /\ phase = "connecting" \/ (phase = "reading" /\ chunks = <<>>)
    /\ Failed(retryDelay)
    /\ UNCHANGED <<sseMaxRetryAttempts, aborted, attempt, retryDelay, lastEventId,
                   received, refused, torn>>

\* The reader is done: the server closed the response, after an event or within
\* one, or the reader was cancelled.
Finish ==
    /\ phase = "reading" /\ chunks = <<>>
    /\ phase' = "ended"
    /\ Closed
    /\ UNCHANGED <<sseMaxRetryAttempts, aborted, attempt, retryDelay, delay, lastEventId,
                   received, refused, torn>>

Wake ==
    /\ phase = "sleeping"
    /\ phase' = "starting"
    /\ delay' = 0
    /\ UNCHANGED <<sseMaxRetryAttempts, aborted, attempt, retryDelay, lastEventId,
                   wire, buffer, chunks, received, refused, torn>>

StreamNext ==
    \/ Subscribe \/ Abort \/ Loop \/ Connected
    \/ \E n \in 1..Len(wire), within \in BOOLEAN : Read(n, within)
    \/ Handle \/ Break \/ Finish \/ Wake

\* The fetch settles, the consumer asks for the next event, the timer fires, and
\* a cancelled reader is done.
StreamFairness ==
    /\ WF_streamVars(Loop) /\ WF_streamVars(Wake) /\ WF_streamVars(Handle)
    /\ WF_streamVars(Break /\ aborted)
    /\ WF_streamVars(Finish /\ aborted)
---------------------------------------------------------------------------
(* Properties                                                               *)

\* No event is yielded twice or after one sent later, over all connections, wherever
\* the ones before broke and whatever was cut in two (serverSentEvents.gen.ts:114-116).
EventsOnceInOrder ==
    \A i, j \in DOMAIN received : i < j => received[i] < received[j]

\* Every event the next connection will not ask for again was yielded or refused by the
\* validator (serverSentEvents.gen.ts:114-116, 173-174) - as long as no read has ended
\* between the CR and the LF of a line's end.  Such a read ends a line twice (158): an
\* event cut off after its id has no data, and a connection that breaks then skips it.
NoEventSkipped ==
    ~torn => \A n \in 1..lastEventId : Contains(received, n) \/ n \in refused

\* A stream its consumer has aborted ends, whatever it was doing.
AbortEnds == aborted ~> phase = "ended"
=============================================================================
