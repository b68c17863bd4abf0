----------------------------- MODULE ReadPages -----------------------------
(***************************************************************************)
(* article_read: the body of a structured text is extracted from its XML,  *)
(* and read in passages by calls that each return at most limit characters *)
(* and a continuation (papers/read.go).                                    *)
(*                                                                         *)
(* A character is the number of its place in the XML.  Each call extracts  *)
(* the text anew; as that has one outcome for one artifact, it is done     *)
(* once here.  Between calls the artifact or the work may change.          *)
(***************************************************************************)
EXTENDS Naturals, Sequences, SequencesExt

CONSTANTS
  Names,      \* elements of the XML
  MaxTokens,  \* tokens of an artifact
  MaxDepth,   \* nesting that is accepted (256)
  Limits,     \* characters that a call may ask for
  MaxCalls,   \* calls of one reader
  None

VARIABLES
  tokens,      \* tokens that were decoded
  stack,       \* open elements
  block,       \* the block being read: where it opened, and its characters
  paragraphs,  \* paragraphs that were extracted
  body,        \* history: the characters of the body
  work,        \* the work's id and the artifact's digest
  phase,       \* what goes on
  cursor,      \* id, digest, paragraph and offset of the reading
  room,        \* characters that the page may still take
  page,        \* the passages of this call
  offered,     \* the continuation that the last answer offers, or None
  read,        \* what this chain of calls has returned
  answered     \* calls that were answered

rvars == <<tokens, stack, block, paragraphs, body, work, phase, cursor, room, page, offered,
           read, answered>>
extraction == <<tokens, stack, block, paragraphs, body>>
reading == <<cursor, room, page, offered, read, answered>>

Blocks == {"p", "head", "item", "ab", "cell"}
Outside == {"teiheader", "front", "back"}
NoBlock == [depth |-> 0, name |-> None, text |-> <<>>]

(***************************************************************************)
(* Extraction                                                              *)
(***************************************************************************)

(* Within text within tei, and in no front matter, header or back.         *)
ParagraphContext(s) ==
  /\ \E i, j \in DOMAIN s : i < j /\ s[i] = "tei" /\ s[j] = "text"
  /\ \A i \in DOMAIN s : s[i] \notin Outside

Token == phase = "extract" /\ tokens < MaxTokens /\ tokens' = tokens + 1

(* An element within a block belongs to it. *)
Open(name) ==
  /\ Token
  /\ stack' = Append(stack, name)
  /\ IF Len(stack') > MaxDepth
     THEN phase' = "unreadable" /\ UNCHANGED block
     ELSE /\ block' = IF block.depth = 0 /\ ParagraphContext(stack') /\ name \in Blocks
                      THEN [depth |-> Len(stack'), name |-> name, text |-> <<>>] ELSE block
          /\ UNCHANGED phase
  /\ UNCHANGED <<paragraphs, body, work, reading>>

(* Text of the body: its outermost block lies there and is not a heading. *)
InBody(s) ==
  \E i \in DOMAIN s :
    /\ s[i] \in Blocks \ {"head"} /\ ParagraphContext(SubSeq(s, 1, i))
    /\ \A j \in 1..(i - 1) : ~(s[j] \in Blocks /\ ParagraphContext(SubSeq(s, 1, j)))

Chars ==
  /\ Token
  /\ block' = IF block.depth # 0 THEN [block EXCEPT !.text = Append(@, tokens)] ELSE block
  /\ body' = IF InBody(stack) THEN Append(body, tokens) ELSE body
  /\ UNCHANGED <<stack, paragraphs, work, phase, reading>>

Close ==
  /\ Token /\ stack # <<>>
  /\ stack' = Front(stack)
  /\ IF block.depth = Len(stack)
     THEN /\ paragraphs' = IF block.name # "head" /\ block.text # <<>>
                           THEN Append(paragraphs, block.text) ELSE paragraphs
          /\ block' = NoBlock
     ELSE UNCHANGED <<paragraphs, block>>
  /\ UNCHANGED <<body, work, phase, reading>>

(* The end of the artifact; a truncated one is not well formed. *)
Extracted ==
  /\ phase = "extract" /\ tokens > 0
  /\ phase' = IF stack = <<>> /\ paragraphs # <<>> THEN "ready" ELSE "unreadable"
  /\ UNCHANGED <<extraction, work, reading>>

(* A work without a structured text is read by its abstract, or not at all. *)
Abstract ==
  /\ phase = "extract" /\ tokens = 0
  /\ \E n \in 0..MaxTokens : body' = [i \in 1..n |-> i]
  /\ paragraphs' = <<body'>>
  /\ phase' = IF body' # <<>> THEN "ready" ELSE "unreadable"
  /\ UNCHANGED <<tokens, stack, block, work, reading>>

(***************************************************************************)
(* Reading                                                                 *)
(***************************************************************************)

Begin(at, old, n) ==
  /\ cursor' = at /\ read' = old /\ room' = n /\ page' = <<>> /\ offered' = None
  /\ phase' = "paging"
  /\ UNCHANGED <<extraction, work, answered>>

FirstCall(n) ==
  /\ phase = "ready" /\ answered < MaxCalls
  /\ Begin([id |-> work.id, digest |-> work.digest, paragraph |-> 1, offset |-> 0], <<>>, n)

(* Mutant of SameText: the digest is not compared. *)
SameWork(c) == c.id = work.id

SameText(c) == c.id = work.id /\ c.digest = work.digest

NextCall(n) ==
  /\ phase = "ready" /\ offered # None /\ answered < MaxCalls
  /\ SameText(offered)
  /\ Begin(offered, read, n)

(* A continuation of another work, or of a text that has changed. *)
Refuse ==
  /\ phase = "ready" /\ offered # None /\ ~SameText(offered)
  /\ offered' = None
  /\ UNCHANGED <<extraction, work, phase, cursor, room, page, read, answered>>

Separator == IF page = <<>> THEN 0 ELSE 2
Left == Len(paragraphs[cursor.paragraph]) - cursor.offset
AtEnd == cursor.paragraph > Len(paragraphs)

(* A paragraph is kept whole unless it is the first of a page. *)
Fits == ~AtEnd /\ room > Separator /\ (page = <<>> \/ Left <= room - Separator)

TakePiece ==
  /\ phase = "paging" /\ Fits
  /\ LET take  == IF Left < room - Separator THEN Left ELSE room - Separator
         piece == SubSeq(paragraphs[cursor.paragraph], cursor.offset + 1, cursor.offset + take)
     IN  /\ page' = Append(page, piece)
         /\ read' = read \o piece
         /\ room' = room - take - Separator
         /\ IF take < Left
            THEN cursor' = [cursor EXCEPT !.offset = @ + take] /\ phase' = "full"
            ELSE cursor' = [cursor EXCEPT !.paragraph = @ + 1, !.offset = 0] /\ UNCHANGED phase
  /\ UNCHANGED <<extraction, work, offered, answered>>

EndPage ==
  /\ phase = "full" \/ (phase = "paging" /\ ~Fits)
  /\ offered' = IF AtEnd THEN None ELSE cursor
  /\ answered' = answered + 1
  /\ phase' = "ready"
  /\ UNCHANGED <<extraction, work, cursor, room, page, read>>

(* OpenAlex merges the work into another, or has a new text for it. *)
Change ==
  /\ phase = "ready" /\ Len(paragraphs) > 1 /\ work.digest = 0 /\ answered > 0
  /\ \/ work' = [work EXCEPT !.digest = 1]
     \/ work' = [id |-> 1, digest |-> 1]
  /\ paragraphs' = Tail(paragraphs)
  /\ body' = SubSeq(body, Len(Head(paragraphs)) + 1, Len(body))
  /\ UNCHANGED <<tokens, stack, block, phase, reading>>

Init ==
  /\ tokens = 0 /\ stack = <<>> /\ block = NoBlock /\ paragraphs = <<>> /\ body = <<>>
  /\ work = [id |-> 0, digest |-> 0]
  /\ phase = "extract" /\ cursor = None /\ room = 0 /\ page = <<>>
  /\ offered = None /\ read = <<>> /\ answered = 0

Next ==
  \/ \E name \in Names : Open(name)
  \/ Chars \/ Close \/ Extracted \/ Abstract
  \/ \E n \in Limits : FirstCall(n) \/ NextCall(n)
  \/ Refuse \/ TakePiece \/ EndPage \/ Change

Spec == Init /\ [][Next]_rvars

(***************************************************************************)
(* Properties                                                              *)
(***************************************************************************)

(* read.go: "Front matter, bibliographies, header metadata and             *)
(* instructions outside TEI are excluded", and a continuation "refers to   *)
(* the exact downloaded artifact".  A chain of calls returns the body of   *)
(* one artifact, every character once and in order, however its blocks are *)
(* nested, and all of it when no continuation is offered; each answer      *)
(* returns something, and no more than its limit.                          *)
TextIsReadOnce ==
  phase = "ready" /\ answered > 0 =>
    /\ page # <<>> /\ room >= 0
    /\ work.digest = cursor.digest => IsPrefix(read, body)
    /\ work.digest = cursor.digest /\ offered = None => read = body
=============================================================================
