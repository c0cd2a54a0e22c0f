----------------------------- MODULE ChunkText -----------------------------
(***************************************************************************)
(* chunk_text of the AI service: long free text becomes overlapping        *)
(* passages.  Each pass of its loop is a step.                             *)
(*                                                                         *)
(* A text is its length and the places of its blanks, numbered from zero;  *)
(* split and join have left no blank at an end and no two in a row.  A     *)
(* passage is the interval of the text it holds.                           *)
(***************************************************************************)
EXTENDS Integers

CONSTANTS
  MaxLength, \* bound on the texts looked at
  MaxChars,
  Overlap

ASSUME ChunkAssumption ==
  MaxLength \in Nat /\ MaxChars \in Nat \ {0} /\ Overlap \in Nat

VARIABLES
  cutting,       \* where the call is
  length, blank, \* the text
  start, end,    \* the loop's variables
  chunks

textVars == <<cutting, length, blank, start, end, chunks>>

TextInit ==
  /\ cutting = "idle"
  /\ length = 0 /\ blank = {}
  /\ start = 0 /\ end = 0
  /\ chunks = {}

ChunkText(n, b) ==
  /\ cutting = "idle" /\ cutting' = "called"
  /\ \A i \in b : i + 1 \notin b
  /\ length' = n /\ blank' = b
  /\ UNCHANGED <<start, end, chunks>>

(* A text that fits is one passage, an empty one none. *)
Whole ==
  /\ cutting = "called" /\ length <= MaxChars
  /\ chunks' = IF length = 0 THEN {} ELSE {<<0, length>>}
  /\ end' = length /\ cutting' = "over"
  /\ UNCHANGED <<length, blank, start>>

(* Where the passage from s ends: at the last blank inside it, or else     *)
(* after MaxChars characters, or at the end of the text.                   *)
EndsAt(s, e) ==
  LET full == IF s + MaxChars < length THEN s + MaxChars ELSE length
      BlankIn(from, to) == \E i \in blank : from < i /\ i < to
  IN  \/ e = full /\ (full = length \/ ~BlankIn(s, full))
      \/ full < length /\ e \in blank /\ s < e /\ e < full /\ ~BlankIn(e, full)

(* strip; a passage of nothing but a blank is not kept. *)
Piece(s, e) ==
  LET from == IF s \in blank THEN s + 1 ELSE s
      to == IF e - 1 \in blank THEN e - 1 ELSE e
  IN  IF from < to THEN {<<from, to>>} ELSE {}

(* Mutant of Onward: no progress is demanded. *)
OnwardOrBack(s, e) == IF e - Overlap > 0 THEN e - Overlap ELSE 0
Onward(s, e) == IF e - Overlap > s + 1 THEN e - Overlap ELSE s + 1

Cut(e) ==
  /\ cutting = "called" /\ length > MaxChars /\ start < length /\ EndsAt(start, e)
  /\ end' = e
  /\ chunks' = chunks \cup Piece(start, e)
  /\ cutting' = IF e >= length THEN "over" ELSE "called"
  /\ start' = IF e >= length THEN start ELSE Onward(start, e)
  /\ UNCHANGED <<length, blank>>

Loop == Whole \/ \E e \in 1 .. length : Cut(e)

TextNext ==
  \/ Loop
  \/ \E n \in 0 .. MaxLength : \E b \in SUBSET (1 .. n - 2) : ChunkText(n, b)

(* The loop runs on. *)
TextFairness == WF_textVars(Loop)

TextSpec == TextInit /\ [][TextNext]_textVars /\ TextFairness

----------------------------------------------------------------------------
(* The text and the loop's variables have their types. *)
TextTypeOK ==
  /\ cutting \in {"idle", "called", "over"}
  /\ length \in Nat /\ blank \subseteq 1 .. length - 2
  /\ start \in Nat /\ end \in 0 .. length
  /\ chunks \subseteq (0 .. length) \X (0 .. length)

(* from .. to - 1 is a word. *)
Word(from, to) ==
  /\ from < to /\ \A i \in from .. to - 1 : i \notin blank
  /\ from = 0 \/ from - 1 \in blank
  /\ to = length \/ to \in blank

(* No text is lost: when the loop is over, every word shorter than a       *)
(* passage stands whole in some passage, though passages begin and may end *)
(* inside words, and every character of a longer word is in one.           *)
NothingLost ==
  cutting = "over" => \A from, to \in 0 .. length : Word(from, to) =>
    /\ to - from < MaxChars => \E c \in chunks : c[1] <= from /\ to <= c[2]
    /\ \A i \in from .. to - 1 : \E c \in chunks : c[1] <= i /\ i < c[2]

(* No passage is longer than the embedding is meant to take. *)
ChunksFit == \A c \in chunks : 0 < c[2] - c[1] /\ c[2] - c[1] <= MaxChars

(* The loop ends for every text, overlap and length of words, though it    *)
(* steps back after every passage, and when it has, nothing is lost.       *)
ChunkingEnds == cutting = "called" ~> (cutting = "over" /\ NothingLost)
=============================================================================
