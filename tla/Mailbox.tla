------------------------------ MODULE Mailbox ------------------------------
(***************************************************************************)
(* The messages of one agent: calls of send_message, which append a line   *)
(* of JSON to the file of a thread in several small writes (append_jsonl   *)
(* of src/message.rs), and a client that pages through list_mailbox, which *)
(* reads the files of all threads (list_mailbox_messages of src/commands/  *)
(* serve.rs).  No lock is taken.                                           *)
(***************************************************************************)
EXTENDS Naturals, SequencesExt

CONSTANTS Messages,   \* how many messages are sent, in the order of their created_at (a bound)
          Threads,    \* how many threads there are, in the order of their file names
          Limit       \* the limit of a page

ASSUME MailboxAssumption == Messages \in Nat /\ Threads \in Nat \ {0} /\ Limit \in Nat \ {0}

Message == 1 .. Messages
Thread  == 1 .. Threads

VARIABLES
    spc, thread,   \* where each send is, and the thread it was sent to
    composed,      \* how many messages there are
    box,           \* the file of each thread: pieces <<message, part>>
    lpc, todo,     \* the listing: "idle" or "reading", and the threads not yet read
    found,         \* the messages it has parsed
    offset, page,  \* what the client has been given: how many, and which
    asked,         \* history: the messages answered before the listing began
    missed,        \* history: a listing succeeded without one of them
    overlap        \* history: a send overlapped another send, or a listing

mailVars == <<spc, thread, composed, box, lpc, todo, found, offset, page, asked, missed, overlap>>

\* serde_json writes piece by piece to an unbuffered file: the body stands for two of them.
Part == {"head", "tail", "newline"}

Sending == {m \in Message : spc[m] \in Part}
Sent    == {m \in Message : spc[m] = "sent"}

SendTypeOK ==
    /\ spc \in [Message -> Part \cup {"idle", "sent", "error"}]
    /\ thread \in [Message -> Thread] /\ composed \in 0 .. Messages
    /\ box \in [Thread -> Seq(Message \X Part)]

MailTypeOK ==
    /\ SendTypeOK
    /\ page \in Seq(Message) /\ offset = Len(page)
    /\ lpc \in {"idle", "reading"} /\ todo \subseteq Thread
    /\ found \subseteq Message /\ asked \subseteq Message
    /\ {missed, overlap} \subseteq BOOLEAN

MailInit ==
    /\ spc = [m \in Message |-> "idle"] /\ thread = [m \in Message |-> 1]
    /\ composed = 0 /\ box = [t \in Thread |-> <<>>]
    /\ lpc = "idle" /\ todo = {} /\ found = {} /\ offset = 0 /\ page = <<>> /\ asked = {}
    /\ missed = FALSE /\ overlap = FALSE

----------------------------------------------------------------------------
(* send_message. *)

Send(m, l) == spc' = [spc EXCEPT ![m] = l]

\* The message gets its created_at; a call refused before that has no effect.
Compose(m) ==
    /\ m = composed + 1
    /\ composed' = m
    /\ Send(m, "head")
    /\ \E t \in Thread : thread' = [thread EXCEPT ![m] = t]
    /\ overlap' = (overlap \/ Sending # {} \/ lpc = "reading")
    /\ UNCHANGED <<box, lpc, todo, found, offset, page, asked, missed>>

After(p) == CASE p = "head" -> "tail" [] p = "tail" -> "newline" [] p = "newline" -> "sent"

\* O_APPEND: each write goes to the end of the file, whoever wrote last.
AppendPart(m) ==
    /\ m \in Sending
    /\ box' = [box EXCEPT ![thread[m]] = Append(@, <<m, spc[m]>>)]
    /\ Send(m, After(spc[m]))
    /\ UNCHANGED <<thread, composed, lpc, todo, found, offset, page, asked, missed, overlap>>

\* A write that fails ends the call; what it has written stays.
WriteFails(m) ==
    /\ spc[m] \in {"tail", "newline"}
    /\ Send(m, "error")
    /\ UNCHANGED <<thread, composed, box, lpc, todo, found, offset, page, asked, missed, overlap>>

----------------------------------------------------------------------------
(* list_mailbox. *)

BeginList ==
    /\ lpc = "idle"
    /\ lpc' = "reading" /\ todo' = Thread /\ found' = {} /\ asked' = Sent
    /\ overlap' = (overlap \/ Sending # {})
    /\ UNCHANGED <<spc, thread, composed, box, offset, page, missed>>

IsNewline(f, i) == f[i][2] = "newline"

\* Every line is blank or one whole message; the last may lack its newline.
Parses(f) ==
    \A i \in DOMAIN f :
       /\ f[i][2] = "head" => /\ i = 1 \/ IsNewline(f, i - 1)
                              /\ i < Len(f) /\ f[i + 1] = <<f[i][1], "tail">>
       /\ f[i][2] = "tail" => /\ i > 1 /\ f[i - 1] = <<f[i][1], "head">>
                              /\ i = Len(f) \/ IsNewline(f, i + 1)

Bodies(f) == {f[i][1] : i \in {j \in DOMAIN f : f[j][2] = "tail"}}

\* Mutant: a line that does not parse is skipped.
MutReadThread ==
    /\ lpc = "reading" /\ todo # {}
    /\ LET t == Min(todo)
           f == box[t]
       IN  /\ found' = found \cup {m \in Bodies(f) : \E i \in DOMAIN f :
                                      /\ f[i] = <<m, "tail">> /\ i > 1
                                      /\ f[i - 1] = <<m, "head">>
                                      /\ i = 2 \/ IsNewline(f, i - 2)
                                      /\ i = Len(f) \/ IsNewline(f, i + 1)}
           /\ todo' = todo \ {t}
           /\ UNCHANGED lpc
    /\ UNCHANGED <<spc, thread, composed, box, offset, page, asked, missed, overlap>>

\* The files are read one after the other; one bad line fails the whole call.
ReadThread ==
    /\ lpc = "reading" /\ todo # {}
    /\ LET t == Min(todo)
       IN  IF Parses(box[t])
             THEN found' = found \cup Bodies(box[t]) /\ todo' = todo \ {t} /\ UNCHANGED lpc
             ELSE found' = {} /\ todo' = {} /\ lpc' = "idle"
    /\ UNCHANGED <<spc, thread, composed, box, offset, page, asked, missed, overlap>>

\* Mutant: the messages stay in the order of their threads.
MutSorted(ms) ==
    LET Before(m, n) == \/ thread[m] < thread[n]
                        \/ thread[m] = thread[n] /\ m < n
    IN  SetToSortSeq(ms, Before)

Sorted(ms) == CHOOSE s \in [1 .. Cardinality(ms) -> ms] :
                 \A i, j \in DOMAIN s : i < j => s[i] < s[j]

\* Mutant: the client's offset grows by the limit, whatever it was given.
MutEndList ==
    /\ lpc = "reading" /\ todo = {}
    /\ LET new == SubSeq(Sorted(found), offset + 1, Min({offset + Limit, Len(Sorted(found))}))
       IN  page' = page \o new /\ offset' = offset + Limit
    /\ missed' = (missed \/ ~(asked \subseteq found))
    /\ lpc' = "idle" /\ found' = {} /\ asked' = {}
    /\ UNCHANGED <<spc, thread, composed, box, todo, overlap>>

\* skip(offset), take(limit); the client asks for what comes after.
EndList ==
    /\ lpc = "reading" /\ todo = {}
    /\ LET new == SubSeq(Sorted(found), offset + 1, Min({offset + Limit, Len(Sorted(found))}))
       IN  page' = page \o new /\ offset' = offset + Len(new)
    /\ missed' = (missed \/ ~(asked \subseteq found))
    /\ lpc' = "idle" /\ found' = {} /\ asked' = {}
    /\ UNCHANGED <<spc, thread, composed, box, todo, overlap>>

MailNext == \/ \E m \in Message : Compose(m) \/ AppendPart(m) \/ WriteFails(m)
            \/ BeginList \/ ReadThread \/ EndList
MailSpec == MailInit /\ [][MailNext]_mailVars

----------------------------------------------------------------------------
(* Properties. *)

\* However sends interleave, fail half-way and race with the listing, a listing that succeeds
\* has every message whose send was answered before it began: a mangled line is an error and
\* never a message silently lost.
ListingIsWhole == ~missed

\* As long as calls do not overlap, a client that pages by offset is given every message once,
\* oldest first, whatever threads they are on and whichever sends failed: the offset counts
\* messages by created_at, which is the order they became visible in.  It is not if a send
\* overlaps a listing: an older message that becomes visible later shifts what was skipped.
PagesMissNothing == ~overlap => page = [i \in 1 .. offset |-> i]

----------------------------------------------------------------------------
(* The inductive invariant behind ListingIsWhole, for RunFilesProofs. *)

\* A message whose body is written is in the file of its thread, whatever else is.
BodiesStay == \A m \in Message : spc[m] \in {"newline", "sent"} =>
                 \E i \in DOMAIN box[thread[m]] : box[thread[m]][i] = <<m, "tail">>

\* Only a message that has been composed is sent.
NotYetComposed == \A m \in Message : m > composed => spc[m] = "idle"

\* What the listing was asked for is in a file it has still to read, or found.
ListingOnItsWay == /\ asked \subseteq Sent
                   /\ lpc = "reading" => \A m \in asked : thread[m] \in todo \/ m \in found

MailInv == SendTypeOK /\ BodiesStay /\ NotYetComposed /\ ListingOnItsWay /\ ListingIsWhole

(* What PagesMissNothing needs besides. *)

\* Sends that do not overlap come one at a time, and none during a listing.
OneSends == /\ \A m, n \in Sending : m = n
            /\ lpc = "reading" => Sending = {}

\* A composed message has begun a line of its thread's file, or is about to, and no other is
\* in any file: a listing that meets a line left half-written fails.
LinesBegun ==
    /\ \A m \in 1 .. composed : spc[m] = "head" \/
          \E i \in DOMAIN box[thread[m]] : box[thread[m]][i] = <<m, "head">>
    /\ \A t \in Thread : \A i \in DOMAIN box[t] : box[t][i][1] <= composed

\* So a listing finds all messages there are, and the pages are their beginning.
AllFound == /\ found \subseteq 1 .. composed /\ offset \in 0 .. composed
            /\ lpc = "reading" => \A m \in 1 .. composed : thread[m] \in todo \/ m \in found

Serial == OneSends /\ LinesBegun /\ AllFound /\ PagesMissNothing

PagesInv == ~overlap => Serial
=============================================================================
