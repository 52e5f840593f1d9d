----------------------------- MODULE Multipart -----------------------------
(***************************************************************************)
(* The positions of multipart_handle_next_file() in the body of an upload.  *)
(* UploadFs lets every step of the parser happen; this module conjoins to   *)
(* each of them what it finds in the evbuffer and what it drains from it.   *)
(*                                                                          *)
(* The body is a sequence of units of two bytes:                            *)
(*   "B" the boundary with its leading dashes    "N" CR LF    "D" two dashes*)
(*   "h" text with a colon and a value           "x" any other text         *)
(* (the boundary is longer in fact; nothing depends on it). Each unit is    *)
(* tagged with the chain of the evbuffer it lies in: how a body is cut into *)
(* chains depends on the reads from the socket. A chain is freed when its   *)
(* last unit is drained.                                                    *)
(***************************************************************************)
EXTENDS UploadFs, Integers, SequencesExt

CONSTANTS
    MaxParts,   \* parts of an upload
    MaxHeaders, \* header lines of a part
    DataOf      \* what the data of a part can be: sequences of units

ASSUME BoundsAssumption == MaxParts \in Nat /\ MaxHeaders \in Nat

\* A client chooses a boundary that does not occur in what it sends.
ASSUME DataAssumption == DataOf \subseteq Seq({"N", "D", "h", "x"})

\* What handle_data() gets when it is handed memory outside of the body.
Garbage == <<"garbage">>

VARIABLES
    form,   \* the upload the client meant to send and the cut of its body
    evb,    \* in_evb: what is left of the body, units with their chains
    start,  \* the evbuffer_ptr of the same name: position, chain, offset
    given   \* the data handle_data() was given, part by part

posVars == <<evb, start, given>>
bodyVars == <<driverVars, form, posVars>>

Chains == 1 .. 3    \* the body comes in at most two, evbuffer_pullup() adds one
Pulled == 3

---------------------------------------------------------------------------
(* Bodies.                                                                 *)

Part == [headers : 0 .. MaxHeaders, data : DataOf]

HeadOf(p) == <<"B", "N">>
             \o [i \in 1 .. 2 * p.headers |-> IF i % 2 = 1 THEN "h" ELSE "N"]
             \o <<"N">>

\* The body from part k on, to the boundary that ends it.
From(parts, k) ==
    LET last[j \in 0 .. Len(parts)] ==
            IF j = 0 THEN <<"B", "D">>
            ELSE LET p == parts[Len(parts) - j + 1]
                 IN  HeadOf(p) \o p.data \o <<"N">> \o last[j - 1]
    IN  last[Len(parts) + 1 - k]

\* A multipart body as RFC 2046 has it, with the text that may precede it.
Encoded(preamble, parts) == preamble \o From(parts, 1)

\* A body that lost a unit or everything from there on, or that is whole.
Damages(body) ==
    {body} \cup {RemoveAt(body, i) : i \in DOMAIN body}
           \cup {SubSeq(body, 1, i) : i \in 0 .. Len(body) - 1}

\* Where the head of part k begins and ends in the body.
HeadBegin(preamble, parts, k) == Len(Encoded(preamble, parts)) - Len(From(parts, k))
HeadEnd(preamble, parts, k) == HeadBegin(preamble, parts, k) + Len(HeadOf(parts[k]))

BodyInit ==
    /\ pc = "boundary" /\ upload_error = 0 /\ replies = 0
    /\ \E preamble \in {<<>>, <<"x">>}, parts \in BoundedSeq(Part, MaxParts) \ {<<>>} :
         LET whole == Encoded(preamble, parts)
         IN  \E body \in Damages(whole) : \E cut \in 0 .. Len(body) :
               /\ form = [parts |-> parts, preamble |-> preamble,
                          whole |-> body = whole, cut |-> cut]
               /\ evb = [i \in DOMAIN body |->
                            [unit |-> body[i], chain |-> IF i <= cut THEN 1 ELSE 2]]
    /\ start = [pos |-> 0, chain |-> 1, offset |-> 0]
    /\ given = <<>>

---------------------------------------------------------------------------
(* libevent's buffer. Positions count from 0, as in the code.              *)

Units(b) == [i \in DOMAIN b |-> b[i].unit]
Positions(b, unit) == {i - 1 : i \in {j \in DOMAIN b : b[j].unit = unit}}

\* evbuffer_search(): the first position of a unit, -1 if there is none.
Search(b, unit) ==
    IF Positions(b, unit) = {} THEN -1 ELSE Min(Positions(b, unit))

\* evbuffer_drain()
Drain(b, n) == SubSeq(b, n + 1, Len(b))

\* The first position of a chain of the buffer.
ChainBegin(b, c) == Min({i - 1 : i \in {j \in DOMAIN b : b[j].chain = c}})
ChainOff(b, c) == Cardinality({i \in DOMAIN b : b[i].chain = c})

\* evbuffer_pullup(): the first n units end up in a chain of their own, unless
\* the first chain already holds them.
Pullup(b, n) ==
    IF ChainOff(b, b[1].chain) >= n THEN b
    ELSE [i \in DOMAIN b |-> IF i <= n THEN [b[i] EXCEPT !.chain = Pulled] ELSE b[i]]

\* The length bytes an evbuffer_peek() that starts at ptr hands out. The
\* pointer was taken before the buffer was drained. It leads to the offset in
\* what is left of its chain; a chain that is gone, an offset behind its end
\* and a length beyond the buffer lead out of the body. peek itself never
\* finds fewer than one extent.
Peeked(b, length, ptr) ==
    IF /\ length >= 0
       /\ ChainOff(b, ptr.chain) > 0
       /\ ptr.offset <= ChainOff(b, ptr.chain)
       /\ ptr.offset + length <= Len(b)
    THEN SubSeq(Units(b), ptr.offset + 1, ptr.offset + length)
    ELSE Garbage

---------------------------------------------------------------------------
(* multipart_handle_next_file()                                            *)

\* The boundary is found and drained with the two bytes behind it.
OpenPart ==
    LET pos == Search(evb, "B") IN
    /\ PartBegins
    /\ pos # -1
    /\ start' = [pos |-> pos, chain |-> evb[pos + 1].chain,
                 offset |-> pos - ChainBegin(evb, evb[pos + 1].chain)]
    /\ evb' = Drain(evb, 1 + pos + 1)
    /\ UNCHANGED given

\* Faulty variant: ret starts out as 1, so that a missing boundary is taken for
\* a part with more to come.
NoPartRetries ==
    /\ pc = "boundary"
    /\ Search(evb, "B") = -1
    /\ UNCHANGED <<driverVars, posVars>>

NoPart ==
    /\ PartMissing
    /\ Search(evb, "B") = -1
    /\ UNCHANGED posVars

\* evbuffer_readln(): the text up to the next line end, which it drains.
EndOfLine == Search(evb, "N")
Line == {evb[i].unit : i \in 1 .. EndOfLine}

ReadLine ==
    /\ EndOfLine # -1
    /\ evb' = Drain(evb, EndOfLine + 1)
    /\ UNCHANGED <<start, given>>

\* A header line for the module, which may refuse it; the module answers the
\* request when it does.
HeaderLine ==
    /\ ReadLine
    /\ "h" \in Line
    /\ \/ HeaderTaken
       \/ HeaderRefused /\ pc' = "parsed" /\ replies' = replies + 1

\* A line without a colon, or with nothing behind it: value is NULL.
HeaderNoValue ==
    /\ pc = "headers"
    /\ BadBody
    /\ ReadLine
    /\ Line # {} /\ "h" \notin Line

\* The empty line, or no further line end in the body.
LastHeader ==
    /\ HeadersEnd
    /\ \/ ReadLine /\ Line = {}
       \/ EndOfLine = -1 /\ UNCHANGED posVars

\* The closing boundary. The sanity check compares a position in the drained
\* buffer with one from before.
next == Search(evb, "B")

CloseFound ==
    /\ DataFound
    /\ next # -1 /\ next >= start.pos
    /\ UNCHANGED posVars

CloseMissing ==
    /\ DataMissing
    /\ next = -1 \/ next < start.pos
    /\ UNCHANGED posVars

\* Faulty variant: the CR LF in front of the boundary is taken for data.
HandleDataWithCrLf ==
    /\ given' = Append(given, Peeked(evb, next, start))
    /\ UNCHANGED <<evb, start>>

\* handle_data() gets the bytes in front of the closing boundary, without the
\* CR LF there is before it.
HandleData ==
    /\ given' = Append(given, Peeked(evb, next - 1, start))
    /\ UNCHANGED <<evb, start>>

\* The module takes or refuses the data; reading outside of the body may end
\* the process.
Data ==
    /\ HandleData
    /\ \/ DataTaken
       \/ DataRefused /\ pc' = "stored" /\ replies' = replies + 1
       \/ /\ Last(given') = Garbage
          /\ Goto("data", "crashed")
          /\ UNCHANGED <<upload_error, replies>>

ErrorSeen == BailOut /\ UNCHANGED posVars

\* What is left after the data was drained.
Rest == Drain(evb, next)

\* The boundary with two more bytes is made contiguous and compared.
Finished ==
    /\ LastPart
    /\ Len(Rest) >= 2
    /\ Rest[2].unit = "D"
    /\ evb' = Pullup(Rest, 2)
    /\ UNCHANGED <<start, given>>

GoOn ==
    /\ MoreParts
    /\ Len(Rest) >= 2
    /\ Rest[2].unit # "D"
    /\ evb' = Pullup(Rest, 2)
    /\ UNCHANGED <<start, given>>

\* Fewer bytes than that: evbuffer_pullup() returns NULL.
NothingToPull ==
    /\ pc = "stored"
    /\ BadBody
    /\ Len(Rest) < 2
    /\ evb' = Rest
    /\ UNCHANGED <<start, given>>

ParserNext ==
    /\ \/ OpenPart \/ NoPart
       \/ HeaderLine \/ HeaderNoValue \/ LastHeader
       \/ CloseFound \/ CloseMissing \/ Data \/ ErrorSeen
       \/ Finished \/ GoOn \/ NothingToPull
    /\ UNCHANGED form

\* upload() runs to its end in one callback of the event loop.
ParserSpec == BodyInit /\ [][ParserNext]_bodyVars /\ WF_bodyVars(ParserNext)

---------------------------------------------------------------------------
(* Properties.                                                             *)

BodyTypeOK ==
    /\ DriverTypeOK
    /\ \A i \in DOMAIN evb : /\ evb[i].unit \in {"B", "N", "D", "h", "x"}
                             /\ evb[i].chain \in Chains
    /\ start.pos \in Nat /\ start.chain \in Chains /\ start.offset \in Nat
    /\ start.offset <= start.pos

\* The pointer survives the draining of the heads: the first byte of every
\* head and the first byte behind it lie in one chain, and in the case of the
\* first part nothing precedes the head.
PointersHold ==
    /\ form.preamble = <<>>
    /\ \A k \in DOMAIN form.parts :
         form.cut \notin HeadBegin(form.preamble, form.parts, k) + 1
                         .. HeadEnd(form.preamble, form.parts, k)

\* Under that condition a body as clients send it arrives as it was sent: the
\* module is given the data of every part, in order and byte for byte, an
\* upload only fails if the module refused a part, and nothing outside of the
\* body is read (multipart_handle_next_file; the comparison of an upload with
\* its download in test-scripts/upload-mode-buf.sh).
UploadFaithful ==
    form.whole /\ PointersHold =>
        LET sent == [k \in DOMAIN form.parts |-> form.parts[k].data] IN
        /\ IsPrefix(given, sent)
        /\ pc = "done" => given = sent
        /\ pc # "crashed"
        /\ pc = "failed" => upload_error = 1

\* Whatever the body is, upload() comes to an end: every round of its loops
\* takes something out of the buffer, and one that cannot is an error.
Terminates == <>(pc \in {"failed", "done", "crashed"})
===========================================================================
