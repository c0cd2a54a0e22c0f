--------------------------- MODULE AssistantProofs ---------------------------
(***************************************************************************)
(* What holds of ChunkText for texts of any length, passages of any size   *)
(* and any overlap, and of Concierge for any posts and faults.             *)
(***************************************************************************)
EXTENDS Concierge, ChunkText, FiniteSetTheorems, TLAPS

(* No character of i .. j - 1 but i itself is a blank.                     *)
NoBlankIn(i, j) == \A k \in blank : ~(i < k /\ k < j)

Holds(from, to) == \E c \in chunks : c[1] <= from /\ to <= c[2]

(* The passages so far hold the text up to end: its short words whole, and *)
(* every character that is no blank.                                       *)
HeldSoFar ==
  /\ \A from, to \in 0 .. length :
       Word(from, to) /\ to - from < MaxChars /\ from < end => to <= end /\ Holds(from, to)
  /\ \A i \in 0 .. end - 1 : i \notin blank => Holds(i, i + 1)

(* How far the last passage went: to a blank, or as far as one may go, but *)
(* not as far as the next one may.                                         *)
EndWellPlaced ==
  /\ start <= end
  /\ end = 0 \/ (end < start + MaxChars /\ end < length)
  /\ end \in blank \/ NoBlankIn(start, end)

TextInv ==
  /\ TextTypeOK /\ ChunksFit /\ NothingLost
  /\ cutting = "idle" => chunks = {} /\ start = 0 /\ end = 0
  /\ cutting = "called" => HeldSoFar /\ EndWellPlaced

----------------------------------------------------------------------------
LEMMA TextInitInv == TextInit => TextInv
BY ChunkAssumption DEF TextInit, TextInv, TextTypeOK, ChunksFit, NothingLost

LEMMA CallPreserves ==
  ASSUME TextInv, NEW n \in 0 .. MaxLength, NEW b \in SUBSET (1 .. n - 2), ChunkText(n, b)
  PROVE  TextInv'
<1> USE ChunkAssumption DEF TextInv
<1>1. /\ cutting' = "called" /\ length' = n /\ blank' = b
      /\ start' = 0 /\ end' = 0 /\ chunks' = {}
  BY DEF ChunkText
<1>2. TextTypeOK' /\ ChunksFit' /\ NothingLost'
  BY <1>1 DEF TextTypeOK, ChunksFit, NothingLost
<1>3. HeldSoFar' /\ EndWellPlaced'
  BY <1>1 DEF HeldSoFar, EndWellPlaced, NoBlankIn
<1> QED
  BY <1>1, <1>2, <1>3

LEMMA WholePreserves == TextInv /\ Whole => TextInv'
<1> SUFFICES ASSUME TextInv, Whole PROVE TextInv'
  OBVIOUS
<1> USE ChunkAssumption DEF TextInv
<1>1. /\ cutting' = "over" /\ length' = length /\ blank' = blank /\ start' = start /\ end' = length
      /\ length <= MaxChars /\ chunks' = IF length = 0 THEN {} ELSE {<<0, length>>}
  BY DEF Whole
<1>2. TextTypeOK' /\ ChunksFit'
  BY <1>1 DEF TextTypeOK, ChunksFit
<1>3. NothingLost'
  <2> SUFFICES ASSUME NEW from \in 0 .. length, NEW to \in 0 .. length, Word(from, to)
               PROVE  /\ \E c \in chunks' : c[1] <= from /\ to <= c[2]
                      /\ \A i \in from .. to - 1 : \E c \in chunks' : c[1] <= i /\ i < c[2]
    BY <1>1 DEF NothingLost, Word
  <2>1. length \in Nat \ {0} /\ chunks' = {<<0, length>>}
    BY <1>1 DEF Word, TextTypeOK
  <2> QED
    BY <2>1
<1> QED
  BY <1>1, <1>2, <1>3

----------------------------------------------------------------------------
(* One passage. *)

Full == IF start + MaxChars < length THEN start + MaxChars ELSE length

LEMMA PassageEnds ==
  ASSUME TextInv, NEW e \in 1 .. length, Cut(e)
  PROVE  /\ start < e /\ e <= Full /\ end <= e
         /\ \/ e = Full /\ (Full = length \/ NoBlankIn(start, Full))
            \/ Full < length /\ e \in blank /\ e < Full /\ NoBlankIn(e, Full)
<1> USE ChunkAssumption DEF TextInv, TextTypeOK
<1>1. start < length /\ EndsAt(start, e) /\ EndWellPlaced
  BY DEF Cut
<1>2. /\ Full \in Nat /\ start < Full /\ Full <= length
  BY <1>1 DEF Full
<1>3. \/ e = Full /\ (Full = length \/ NoBlankIn(start, Full))
      \/ Full < length /\ e \in blank /\ start < e /\ e < Full /\ NoBlankIn(e, Full)
  BY <1>1 DEF EndsAt, Full, NoBlankIn
<1>4. end = 0 \/ end < Full
  BY <1>1 DEF EndWellPlaced, Full
<1>5. end <= e
  BY <1>1, <1>2, <1>3, <1>4 DEF EndWellPlaced, NoBlankIn
<1> QED
  BY <1>2, <1>3, <1>5

(* What is between two ends and no blank is in the new passage. *)
LEMMA PassageHolds ==
  ASSUME TextInv, NEW e \in 1 .. length, Cut(e),
         NEW from \in Nat, NEW to \in Nat, end <= from, from < to, to <= e,
         from \notin blank, to - 1 \notin blank
  PROVE  Holds(from, to)'
<1> USE ChunkAssumption DEF TextInv, TextTypeOK
<1> DEFINE f == IF start \in blank THEN start + 1 ELSE start
           t == IF e - 1 \in blank THEN e - 1 ELSE e
<1>1. start <= end
  BY DEF Cut, EndWellPlaced
<1>2. f <= from /\ to <= t
  BY <1>1
<1>3. Piece(start, e) = {<<f, t>>}
  BY <1>2 DEF Piece
<1>4. <<f, t>> \in chunks'
  BY <1>3 DEF Cut
<1>5. <<f, t>>[1] <= from /\ to <= <<f, t>>[2]
  BY <1>2
<1> QED
  BY <1>4, <1>5 DEF Holds

LEMMA HeldOnward ==
  ASSUME TextInv, NEW e \in 1 .. length, Cut(e)
  PROVE  HeldSoFar'
<1> USE ChunkAssumption DEF TextInv
<1>1. /\ UNCHANGED <<length, blank>> /\ end' = e /\ chunks \subseteq chunks'
      /\ HeldSoFar /\ EndWellPlaced
  BY DEF Cut
<1>2. \A from, to : Holds(from, to) => Holds(from, to)'
  BY <1>1 DEF Holds
<1>3. start < e /\ end <= e /\ e <= Full
  BY PassageEnds
<1>4. ASSUME NEW from \in 0 .. length, NEW to \in 0 .. length,
             Word(from, to), to - from < MaxChars, from < e
      PROVE  to <= e /\ Holds(from, to)'
  <2>1. CASE from < end
    BY <1>1, <1>2, <1>3, <1>4, <2>1 DEF HeldSoFar, TextTypeOK
  <2>2. CASE end <= from
    <3>1. to <= e
      <4>1. start \in Nat /\ end \in Nat /\ start <= from /\ blank \subseteq 1 .. length - 2 /\ length \in Nat
        BY <1>1, <2>2 DEF EndWellPlaced, TextTypeOK
      <4>2. CASE e \in blank
        BY <1>4, <4>1, <4>2 DEF Word
      <4>3. CASE e = length
        BY <4>3
      <4>4. CASE e = Full /\ NoBlankIn(start, Full) /\ Full = start + MaxChars
        <5>1. from = start \/ from = start + 1
          BY <1>4, <4>1, <4>4 DEF Word, NoBlankIn
        <5>2. to # length => to \in blank
          BY <1>4 DEF Word
        <5> QED
          BY <1>3, <1>4, <4>1, <4>4, <5>1, <5>2 DEF NoBlankIn, Full
      <4> QED
        BY <4>2, <4>3, <4>4, PassageEnds DEF Full
    <3>2. from \notin blank /\ to - 1 \notin blank /\ from < to
      BY <1>4 DEF Word
    <3> QED
      BY <2>2, <3>1, <3>2, PassageHolds
  <2> QED
    BY <2>1, <2>2 DEF TextTypeOK
<1>5. ASSUME NEW i \in 0 .. e - 1, i \notin blank
      PROVE  Holds(i, i + 1)'
  <2>1. CASE i < end
    BY <1>1, <1>2, <1>5, <2>1 DEF HeldSoFar, TextTypeOK
  <2>2. CASE end <= i
    BY <1>5, <2>2, PassageHolds
  <2> QED
    BY <2>1, <2>2 DEF TextTypeOK
<1> QED
  BY <1>1, <1>4, <1>5 DEF HeldSoFar, Word

LEMMA CutPreserves ==
  ASSUME TextInv, NEW e \in 1 .. length, Cut(e)
  PROVE  TextInv'
<1> USE ChunkAssumption DEF TextInv
<1>1. /\ UNCHANGED <<length, blank>> /\ end' = e /\ chunks' = chunks \cup Piece(start, e)
      /\ cutting' = IF e >= length THEN "over" ELSE "called"
      /\ start' = IF e >= length THEN start ELSE Onward(start, e)
  BY DEF Cut
<1>2. start < e /\ e <= Full /\ Full \in Nat /\ Full <= start + MaxChars /\ Full <= length
  BY PassageEnds DEF Full, TextTypeOK
<1>3. start \in Nat /\ length \in Nat
  BY DEF TextTypeOK
<1>4. Onward(start, e) \in Nat /\ start < Onward(start, e) /\ Onward(start, e) <= e
  BY <1>2, <1>3 DEF Onward
<1>5. \A c \in Piece(start, e) : c \in (0 .. length) \X (0 .. length) /\ 0 < c[2] - c[1] /\ c[2] - c[1] <= MaxChars
  BY <1>2, <1>3 DEF Piece, Full
<1>6. TextTypeOK' /\ ChunksFit'
  BY <1>1, <1>3, <1>4, <1>5 DEF TextTypeOK, ChunksFit
<1>7. HeldSoFar'
  BY HeldOnward
<1>8. NothingLost'
  <2> SUFFICES ASSUME e = length, NEW from \in 0 .. length, NEW to \in 0 .. length, Word(from, to)
               PROVE  /\ to - from < MaxChars => Holds(from, to)'
                      /\ \A i \in from .. to - 1 : Holds(i, i + 1)'
    <3> HIDE DEF TextInv
    <3>1. \A i \in Nat : Holds(i, i + 1)' => \E c \in chunks' : c[1] <= i /\ i < c[2]
      BY <1>6 DEF Holds, TextTypeOK
    <3> QED
      BY <1>1, <1>3, <3>1 DEF NothingLost, Word, Holds
  <2>1. to - from < MaxChars => Holds(from, to)'
    BY <1>1, <1>7 DEF HeldSoFar, Word
  <2>2. \A i \in from .. to - 1 : i \in 0 .. end' - 1 /\ i \notin blank'
    BY <1>1, <1>3 DEF Word
  <2> QED
    BY <1>7, <2>1, <2>2 DEF HeldSoFar
<1>9. cutting' = "called" => EndWellPlaced'
  <2> SUFFICES ASSUME e < length PROVE EndWellPlaced'
    BY <1>1, <1>3
  <2>1. start' \in Nat /\ start < start' /\ start' <= e
    BY <1>1, <1>3, <1>4
  <2>2. e \in blank \/ NoBlankIn(start, e)
    BY PassageEnds, <1>3
  <2>3. \A k \in blank : k \in Nat
    BY <1>3 DEF TextTypeOK
  <2>4. NoBlankIn(start, e) => \A k \in blank : ~(start' < k /\ k < e)
    BY <1>3, <2>1, <2>3 DEF NoBlankIn
  <2> QED
    BY <1>1, <1>2, <1>3, <2>1, <2>2, <2>4 DEF EndWellPlaced, NoBlankIn
<1> QED
  BY <1>1, <1>6, <1>7, <1>8, <1>9

LEMMA TextStep == TextInv /\ [TextNext]_textVars => TextInv'
<1> SUFFICES ASSUME TextInv, [TextNext]_textVars PROVE TextInv'
  OBVIOUS
<1>1. CASE UNCHANGED textVars
  BY <1>1 DEF textVars, TextInv, TextTypeOK, ChunksFit, NothingLost, Word, HeldSoFar, Holds, EndWellPlaced, NoBlankIn
<1> QED
  BY <1>1, CallPreserves, WholePreserves, CutPreserves DEF TextNext, Loop

LEMMA TextInvariant == TextSpec => []TextInv
BY TextInitInv, TextStep, PTL DEF TextSpec

(* chunk_text loses no text: when it has returned, each word shorter than  *)
(* a passage stands whole in one, and of a longer word every character.    *)
THEOREM ChunkTextLosesNothing == TextSpec => []NothingLost
<1>1. TextInv => NothingLost
  BY DEF TextInv
<1> QED
  BY <1>1, TextInvariant, PTL

(* No passage chunk_text returns is empty or longer than max_chars.        *)
THEOREM PassagesFit == TextSpec => []ChunksFit
<1>1. TextInv => ChunksFit
  BY DEF TextInv
<1> QED
  BY <1>1, TextInvariant, PTL
----------------------------------------------------------------------------
(* Concierge. *)

(* A call that has read has a place of the log; one that has not has none. *)
PlacesRead ==
  \A c \in Calls :
    /\ call[c].at \in {"idle", "read"} => call[c].last = 0
    /\ call[c].at \in {"wait", "tell", "catch"} => call[c].last # 0
    /\ call[c].last <= Len(log)

(* A reply answers the place its call read, which comes before it.         *)
RepliesFollow ==
  \A i \in 1 .. Len(log) : log[i].from = "ai" =>
    /\ call[log[i].by].at \notin {"idle", "read"}
    /\ log[i].to = call[log[i].by].last /\ 0 < log[i].to /\ log[i].to < i

(* A guest's post is in the log by the time it reads, and only if it was   *)
(* taken.                                                                  *)
PostsFirst ==
  \A c \in GuestPosts :
    /\ call[c].at = "idle" => \A i \in 1 .. Len(log) : log[i].by # c
    /\ call[c].at = "read" => \E i \in 1 .. Len(log) : log[i].from = "guest" /\ log[i].by = c
    /\ call[c].last # 0 => \E i \in 1 .. call[c].last : log[i].from = "guest" /\ log[i].by = c

ConciergeInv == TypeOK /\ PlacesRead /\ RepliesFollow /\ PostsFirst /\ HintsReachTheHost

LEMMA ConciergeInit == Init => ConciergeInv
<1> SUFFICES ASSUME Init PROVE ConciergeInv
  OBVIOUS
<1>1. /\ log = <<>> /\ Len(log) = 0 /\ status = "open" /\ faults = 0
      /\ log \in Seq([from : {"guest", "host", "ai", "system"}, by : Calls, to : Nat])
      /\ call = [c \in Calls |-> [at |-> "idle", last |-> 0]]
  BY DEF Init
<1>2. \A c \in Calls : call[c].at = "idle" /\ call[c].last = 0
  BY <1>1
<1>3. TypeOK
  BY <1>1 DEF TypeOK
<1>4. PlacesRead /\ RepliesFollow
  BY <1>1, <1>2 DEF PlacesRead, RepliesFollow
<1>5. PostsFirst
  BY <1>1, <1>2 DEF PostsFirst, Calls, Posts
<1>6. HintsReachTheHost
  BY <1>2 DEF HintsReachTheHost
<1> QED
  BY <1>3, <1>4, <1>5, <1>6 DEF ConciergeInv

LEMMA MembersOf ==
  ASSUME NEW S, NEW s \in Seq(S)
  PROVE  \A i \in 1 .. Len(s) : s[i] \in S
OBVIOUS

(* What the types say of one row and one call. *)
LEMMA RowsTyped ==
  ASSUME TypeOK
  PROVE  /\ Len(log) \in Nat
         /\ \A i \in 1 .. Len(log) : log[i].by \in Calls /\ log[i].to \in Nat
         /\ \A d \in Calls : call[d].last \in Nat
<1>1. Len(log) \in Nat
  BY DEF TypeOK
<1>2. \A i \in 1 .. Len(log) :
        log[i] \in [from : {"guest", "host", "ai", "system"}, by : Calls, to : Nat]
  BY MembersOf DEF TypeOK
<1>3. \A i \in 1 .. Len(log) : log[i].by \in Calls /\ log[i].to \in Nat
  BY <1>2
<1>4. \A d \in Calls : call[d].last \in Nat
  BY DEF TypeOK
<1> QED
  BY <1>1, <1>3, <1>4

(* What saying something does to the log. *)
LEMMA SayAppends ==
  ASSUME TypeOK, NEW c \in Calls, NEW from \in {"guest", "host", "ai", "system"}, NEW place \in Nat,
         Say(from, c, place)
  PROVE  /\ log' \in Seq([from : {"guest", "host", "ai", "system"}, by : Calls, to : Nat])
         /\ Len(log) \in Nat /\ Len(log') = Len(log) + 1
         /\ \A i \in 1 .. Len(log) : log'[i] = log[i]
         /\ log'[Len(log')].from = from /\ log'[Len(log')].by = c /\ log'[Len(log')].to = place
BY DEF TypeOK, Say

(* What a call's step does to the calls. *)
LEMMA CallMoves ==
  ASSUME TypeOK, NEW c \in Calls, NEW from, NEW to, Go(c, from, to),
         to \in Over \cup {"idle", "read", "wait", "tell", "catch"}
  PROVE  /\ call[c].at = from /\ call'[c].at = to /\ call'[c].last = call[c].last
         /\ call' \in [Calls -> [at : Over \cup {"idle", "read", "wait", "tell", "catch"}, last : Nat]]
         /\ \A d \in Calls \ {c} : call'[d] = call[d]
BY DEF TypeOK, Go

(* A step that says nothing and reads nothing. *)
LEMMA SilentSteps ==
  ASSUME ConciergeInv, NEW c \in Calls,
         NotYours(c) \/ NothingToAnswer(c) \/ TimeOut(c) \/ Fail(c) \/ CutOff(c)
  PROVE  ConciergeInv'
<1>1. UNCHANGED <<status, log>> /\ faults' \in Nat /\ TypeOK
  BY ConciergeAssumption DEF ConciergeInv, TypeOK, NotYours, NothingToAnswer, TimeOut, Fail, CutOff, Fault
<1>2. /\ call'[c].last = call[c].last
      /\ \/ call'[c].at \in {"refused", "error"}
         \/ call'[c].at = "catch" /\ call[c].at \in {"wait", "tell"}
      /\ call' \in [Calls -> [at : Over \cup {"idle", "read", "wait", "tell", "catch"}, last : Nat]]
      /\ \A d \in Calls \ {c} : call'[d] = call[d]
  <2>1. CASE NotYours(c)
    BY <1>1, <2>1, CallMoves DEF NotYours, Over
  <2>2. CASE NothingToAnswer(c)
    BY <1>1, <2>2 DEF NothingToAnswer, TypeOK, Over
  <2>3. CASE TimeOut(c)
    BY <1>1, <2>3, CallMoves DEF TimeOut, Over
  <2>4. CASE Fail(c)
    BY <1>1, <2>4, CallMoves DEF Fail, Over
  <2>5. CASE CutOff(c)
    BY <1>1, <2>5, CallMoves DEF CutOff, Over
  <2> QED
    BY <2>1, <2>2, <2>3, <2>4, <2>5
<1>3. TypeOK'
  BY <1>1, <1>2 DEF TypeOK
<1>4. PlacesRead'
  BY <1>1, <1>2 DEF ConciergeInv, PlacesRead
<1>5. RepliesFollow'
  BY <1>1, <1>2, RowsTyped DEF ConciergeInv, RepliesFollow
<1>6. PostsFirst'
  <2>1. GuestPosts \subseteq Calls
    BY DEF Calls, Posts
  <2> QED
    BY <1>1, <1>2, <2>1 DEF ConciergeInv, PostsFirst
<1>7. HintsReachTheHost'
  BY <1>1, <1>2 DEF ConciergeInv, HintsReachTheHost, HasHint, Said
<1> QED
  BY <1>3, <1>4, <1>5, <1>6, <1>7 DEF ConciergeInv

(* The step that reads. *)
LEMMA ReadingStep ==
  ASSUME ConciergeInv, NEW c \in Calls, Respond(c)
  PROVE  ConciergeInv'
<1>1. UNCHANGED <<status, log, faults>> /\ TypeOK /\ Len(log) \in Nat /\ Len(log) # 0
  BY DEF ConciergeInv, TypeOK, Respond
<1>2. /\ call'[c].at = "wait" /\ call'[c].last = Len(log)
      /\ call' \in [Calls -> [at : Over \cup {"idle", "read", "wait", "tell", "catch"}, last : Nat]]
      /\ \A d \in Calls \ {c} : call'[d] = call[d]
  BY <1>1 DEF Respond, TypeOK
<1>3. call[c].at \in {"idle", "read"} /\ (c \in GuestPosts => call[c].at = "read")
  BY PostsAssumption DEF Respond, AtRespond, Posts
<1>4. TypeOK'
  BY <1>1, <1>2 DEF TypeOK
<1>5. PlacesRead'
  BY <1>1, <1>2 DEF ConciergeInv, PlacesRead
<1>6. RepliesFollow'
  BY <1>1, <1>2, <1>3, RowsTyped DEF ConciergeInv, RepliesFollow
<1>7. PostsFirst'
  <2>1. GuestPosts \subseteq Calls
    BY DEF Calls, Posts
  <2> QED
    BY <1>1, <1>2, <1>3, <2>1 DEF ConciergeInv, PostsFirst
<1>8. HintsReachTheHost'
  BY <1>1, <1>2 DEF ConciergeInv, HintsReachTheHost, HasHint, Said
<1> QED
  BY <1>4, <1>5, <1>6, <1>7, <1>8 DEF ConciergeInv

(* A step that adds a message. *)
LEMMA SpeakingSteps ==
  ASSUME ConciergeInv, NEW c \in Calls,
         PostMessage(c) \/ (\E v \in Verdicts : StoreReply(c, v)) \/ HandOff(c) \/ HandOffUnheard(c)
  PROVE  ConciergeInv'
<1> DEFINE n == Len(log')
           m == log'[n]
           Posted == /\ m.from \in {"guest", "host"} /\ (c \in GuestPosts => m.from = "guest")
                     /\ call[c].at = "idle" /\ UNCHANGED <<status, faults>>
                     /\ call'[c].at = IF c \in GuestPosts THEN "read" ELSE "ok"
           Replied == /\ m.from = "ai" /\ m.to = call[c].last
                      /\ call[c].at = "wait" /\ UNCHANGED <<status, faults>>
                      /\ call'[c].at \in {"tell", "ok"}
                      /\ call'[c].at = "ok" => ~HasHint(call[c].last)
           Told == /\ m.from = "system" /\ call[c].at \in {"tell", "catch"} /\ status' = "handoff"
                   /\ call'[c].at \in {"ok", "catch", "error"}
<1>1. TypeOK /\ call[c].last \in Nat
  BY DEF ConciergeInv, TypeOK
<1>2. \A from \in {"guest", "host", "ai", "system"}, place \in Nat : Say(from, c, place) =>
        /\ log' \in Seq([from : {"guest", "host", "ai", "system"}, by : Calls, to : Nat])
        /\ Len(log) \in Nat /\ n = Len(log) + 1
        /\ \A i \in 1 .. Len(log) : log'[i] = log[i]
        /\ m.from = from /\ m.by = c /\ m.to = place
  BY <1>1, SayAppends
<1>3. \E from \in {"guest", "host", "ai", "system"}, place \in Nat : Say(from, c, place)
  BY <1>1 DEF PostMessage, StoreReply, HandOff, HandOffUnheard, TellHost
<1>4. \E from, to : /\ Go(c, from, to)
                    /\ to \in Over \cup {"idle", "read", "wait", "tell", "catch"}
  BY DEF PostMessage, StoreReply, HandOff, HandOffUnheard, Over
<1>5. /\ log' \in Seq([from : {"guest", "host", "ai", "system"}, by : Calls, to : Nat])
      /\ Len(log) \in Nat /\ n = Len(log) + 1 /\ m.by = c
      /\ \A i \in 1 .. Len(log) : log'[i] = log[i]
  BY <1>2, <1>3
<1>6. /\ call'[c].last = call[c].last
      /\ call' \in [Calls -> [at : Over \cup {"idle", "read", "wait", "tell", "catch"}, last : Nat]]
      /\ \A d \in Calls \ {c} : call'[d] = call[d]
  BY <1>1, <1>4, CallMoves
<1>7. Posted \/ Replied \/ Told
  <2>1. ASSUME PostMessage(c) PROVE Posted
    BY <1>1, <1>2, <2>1, CallMoves DEF PostMessage, Over
  <2>2. ASSUME NEW v \in Verdicts, StoreReply(c, v) PROVE Replied
    BY <1>1, <1>2, <2>2, CallMoves DEF StoreReply, Verdict, Verdicts, Over
  <2>3. ASSUME HandOff(c) \/ HandOffUnheard(c) PROVE Told
    BY <1>1, <1>2, <2>3, CallMoves DEF HandOff, HandOffUnheard, TellHost, Over
  <2> QED
    BY <2>1, <2>2, <2>3
<1>8. faults' \in Nat /\ status' \in {"open", "handoff"}
  BY <1>1, ConciergeAssumption DEF TypeOK, PostMessage, StoreReply, HandOff, HandOffUnheard, TellHost, Fault
<1>9. TypeOK'
  BY <1>5, <1>6, <1>8 DEF TypeOK
<1>10. PlacesRead'
  <2> SUFFICES ASSUME NEW d \in Calls
               PROVE  /\ call'[d].at \in {"idle", "read"} => call'[d].last = 0
                      /\ call'[d].at \in {"wait", "tell", "catch"} => call'[d].last # 0
                      /\ call'[d].last <= n
    BY DEF PlacesRead
  <2>1. call'[d].last = call[d].last /\ call[d].last \in Nat /\ call[d].last <= Len(log)
    BY <1>1, <1>6, RowsTyped DEF ConciergeInv, PlacesRead
  <2>2. CASE d # c
    BY <2>1, <2>2, <1>5, <1>6 DEF ConciergeInv, PlacesRead
  <2>3. CASE d = c
    BY <2>1, <2>3, <1>5, <1>7 DEF ConciergeInv, PlacesRead
  <2> QED
    BY <2>2, <2>3
<1>11. \A i \in 1 .. Len(log) : log[i].by \in Calls /\ log[i].to \in Nat
  BY <1>1, RowsTyped
<1>12. \A i \in 1 .. n : i \in 1 .. Len(log) \/ i = n
  BY <1>5
<1>13. RepliesFollow'
  <2> SUFFICES ASSUME NEW i \in 1 .. n, log'[i].from = "ai"
               PROVE  /\ call'[log'[i].by].at \notin {"idle", "read"}
                      /\ log'[i].to = call'[log'[i].by].last /\ 0 < log'[i].to /\ log'[i].to < i
    BY DEF RepliesFollow
  <2>1. CASE i \in 1 .. Len(log)
    <3>1. /\ log'[i] = log[i] /\ log[i].by \in Calls
          /\ call[log[i].by].at \notin {"idle", "read"}
          /\ log[i].to = call[log[i].by].last /\ 0 < log[i].to /\ log[i].to < i
      BY <2>1, <1>5, <1>11 DEF ConciergeInv, RepliesFollow
    <3> QED
      BY <3>1, <1>6, <1>7
  <2>2. CASE i = n
    BY <2>2, <1>1, <1>5, <1>6, <1>7 DEF ConciergeInv, PlacesRead
  <2> QED
    BY <1>12, <2>1, <2>2
<1>14. PostsFirst'
  <2> SUFFICES ASSUME NEW d \in GuestPosts
               PROVE  /\ call'[d].at = "idle" => \A i \in 1 .. n : log'[i].by # d
                      /\ call'[d].at = "read" =>
                           \E i \in 1 .. n : log'[i].from = "guest" /\ log'[i].by = d
                      /\ call'[d].last # 0 =>
                           \E i \in 1 .. call'[d].last : log'[i].from = "guest" /\ log'[i].by = d
    BY DEF PostsFirst
  <2>1. d \in Calls /\ call'[d].last = call[d].last /\ call[d].last \in Nat /\ call[d].last <= Len(log)
    BY <1>1, <1>5, <1>6 DEF Calls, Posts, ConciergeInv, TypeOK, PlacesRead
  <2>2. call'[d].at = "idle" => \A i \in 1 .. n : log'[i].by # d
    <3> SUFFICES ASSUME call'[d].at = "idle" PROVE \A i \in 1 .. n : log'[i].by # d
      OBVIOUS
    <3>1. d # c
      BY <1>7
    <3>2. \A i \in 1 .. Len(log) : log[i].by # d
      BY <3>1, <2>1, <1>6 DEF ConciergeInv, PostsFirst
    <3> QED
      BY <3>1, <3>2, <1>5, <1>12
  <2>3. call'[d].at = "read" => \E i \in 1 .. n : log'[i].from = "guest" /\ log'[i].by = d
    <3>1. CASE d = c
      BY <3>1, <1>5, <1>7
    <3>2. CASE d # c
      <4>1. call'[d].at = "read" => \E i \in 1 .. Len(log) : log[i].from = "guest" /\ log[i].by = d
        BY <3>2, <2>1, <1>6 DEF ConciergeInv, PostsFirst
      <4> QED
        BY <4>1, <1>5
    <3> QED
      BY <3>1, <3>2
  <2>4. call'[d].last # 0 => \E i \in 1 .. call'[d].last : log'[i].from = "guest" /\ log'[i].by = d
    BY <2>1, <1>5 DEF ConciergeInv, PostsFirst
  <2> QED
    BY <2>2, <2>3, <2>4
<1>15. HintsReachTheHost'
  <2> SUFFICES ASSUME NEW d \in Calls, call'[d].at = "ok", call'[d].last # 0, HasHint(call[d].last)'
               PROVE  status' = "handoff" /\ \E i \in 1 .. n : log'[i].from = "system" /\ log'[i].by = d
    BY DEF HintsReachTheHost, Said
  <2>1. call'[d].last = call[d].last /\ call[d].last \in 1 .. Len(log)
    BY <1>1, <1>5, <1>6, RowsTyped DEF ConciergeInv, PlacesRead
  <2>2. HasHint(call[d].last)
    BY <2>1, <1>5 DEF HasHint
  <2>3. CASE d # c
    <3>1. status = "handoff" /\ \E i \in 1 .. Len(log) : log[i].from = "system" /\ log[i].by = d
      BY <2>1, <2>2, <2>3, <1>6 DEF ConciergeInv, HintsReachTheHost, Said
    <3> QED
      BY <3>1, <1>5, <1>7
  <2>4. CASE d = c
    <3>1. Told
      BY <2>1, <2>2, <2>4, <1>5, <1>7 DEF ConciergeInv, PlacesRead
    <3> QED
      BY <3>1, <2>4, <1>5
  <2> QED
    BY <2>3, <2>4
<1> QED
  BY <1>9, <1>10, <1>13, <1>14, <1>15 DEF ConciergeInv

LEMMA ConciergeStep == ConciergeInv /\ [Next]_vars => ConciergeInv'
<1>1. ASSUME ConciergeInv, UNCHANGED vars PROVE ConciergeInv'
  BY <1>1 DEF ConciergeInv, vars, TypeOK, PlacesRead, RepliesFollow, PostsFirst, HintsReachTheHost, HasHint, Said
<1> QED
  BY <1>1, SilentSteps, ReadingStep, SpeakingSteps DEF Next, Step

LEMMA ConciergeInvariant == Spec => []ConciergeInv
BY ConciergeInit, ConciergeStep, PTL DEF Spec

(* Rows and calls of the messaging API and the gateway have their types.   *)
THEOREM ConciergeTypes == Spec => []TypeOK
<1>1. ConciergeInv => TypeOK
  BY DEF ConciergeInv
<1> QED
  BY <1>1, ConciergeInvariant, PTL

(* A message with a hint that the AI was asked about is in the host's      *)
(* hands once the call that asked has answered.                            *)
THEOREM HintsHandedOff == Spec => []HintsReachTheHost
<1>1. ConciergeInv => HintsReachTheHost
  BY DEF ConciergeInv
<1> QED
  BY <1>1, ConciergeInvariant, PTL

(* respond answers a message twice only for posts that cross.              *)
THEOREM AnsweredOncePerCrossing == Spec => []AnsweredTwiceOnlyByOverlap
<1>1. ASSUME ConciergeInv, NEW i \in 1 .. Len(log), NEW j \in 1 .. Len(log),
             log[i].from = "ai", log[j].from = "ai", log[i].to = log[j].to, log[j].by \in GuestPosts
      PROVE  \E p \in Said("guest", log[j].by) : p < i
  <2>1. /\ log[j].to = call[log[j].by].last /\ log[j].to < i /\ 0 < log[j].to
        /\ log[j].to \in Nat /\ Len(log) \in Nat /\ log[j].to <= Len(log)
    BY <1>1, RowsTyped DEF ConciergeInv, RepliesFollow, PlacesRead
  <2>2. PICK p \in 1 .. log[j].to : log[p].from = "guest" /\ log[p].by = log[j].by
    BY <1>1, <2>1 DEF ConciergeInv, PostsFirst
  <2> QED
    BY <2>1, <2>2 DEF Said
<1>2. ConciergeInv => AnsweredTwiceOnlyByOverlap
  BY <1>1 DEF AnsweredTwiceOnlyByOverlap
<1> QED
  BY <1>2, ConciergeInvariant, PTL
----------------------------------------------------------------------------
(* Silence. *)

Silent == {c \in GuestPosts : /\ call[c].at \in Over /\ Said("guest", c) # {}
                              /\ Said("ai", c) \cup Said("system", c) = {}}

SilenceInv == ConciergeInv /\ SilenceOnlyByFaults

LEMMA OneGuestMore ==
  ASSUME NEW S \in SUBSET GuestPosts, NEW c \in GuestPosts
  PROVE  /\ Cardinality(S) \in Nat
         /\ \A T \in SUBSET S : Cardinality(T) \in Nat /\ Cardinality(T) <= Cardinality(S)
         /\ \A T \in SUBSET (S \cup {c}) : Cardinality(T) \in Nat /\ Cardinality(T) <= Cardinality(S) + 1
<1>1. IsFiniteSet(S) /\ IsFiniteSet(S \cup {c})
  BY PostsAssumption, FS_Subset DEF Calls, Posts
<1>2. Cardinality(S) \in Nat /\ Cardinality(S \cup {c}) \in Nat
  BY <1>1, FS_CardinalityType
<1>3. Cardinality(S \cup {c}) = IF c \in S THEN Cardinality(S) ELSE Cardinality(S) + 1
  BY <1>1, FS_AddElement, Zenon
<1>4. Cardinality(S \cup {c}) <= Cardinality(S) + 1
  BY <1>2, <1>3
<1>5. \A T \in SUBSET S : Cardinality(T) \in Nat /\ Cardinality(T) <= Cardinality(S)
  BY <1>1, FS_Subset, FS_CardinalityType
<1>6. \A T \in SUBSET (S \cup {c}) :
        Cardinality(T) \in Nat /\ Cardinality(T) <= Cardinality(S \cup {c})
  BY <1>1, FS_Subset, FS_CardinalityType
<1>7. \A T \in SUBSET (S \cup {c}) : Cardinality(T) \in Nat /\ Cardinality(T) <= Cardinality(S) + 1
  <2> SUFFICES ASSUME NEW T \in SUBSET (S \cup {c})
               PROVE  Cardinality(T) \in Nat /\ Cardinality(T) <= Cardinality(S) + 1
    OBVIOUS
  <2>1. Cardinality(T) \in Nat /\ Cardinality(T) <= Cardinality(S \cup {c})
    BY <1>6
  <2> QED
    BY <2>1, <1>2, <1>4
<1> QED
  BY <1>2, <1>5, <1>7, Zenon

(* A call adds at most one message, its own, and moves itself alone.       *)
LEMMA OnlyItsOwn ==
  ASSUME ConciergeInv, NEW c \in Calls,
         \/ NotYours(c) \/ NothingToAnswer(c) \/ TimeOut(c) \/ Fail(c) \/ CutOff(c) \/ Respond(c)
         \/ PostMessage(c) \/ (\E v \in Verdicts : StoreReply(c, v)) \/ HandOff(c) \/ HandOffUnheard(c)
  PROVE  /\ \A d \in Calls \ {c} : call'[d] = call[d]
         /\ \A i \in 1 .. Len(log) : i \in 1 .. Len(log') /\ log'[i] = log[i]
         /\ \A i \in 1 .. Len(log') : i \in 1 .. Len(log) \/ log'[i].by = c
<1>1. TypeOK /\ Len(log) \in Nat /\ call[c].last \in Nat
  BY RowsTyped DEF ConciergeInv
<1>2. \A d \in Calls \ {c} : call'[d] = call[d]
  BY <1>1 DEF TypeOK, NotYours, NothingToAnswer, TimeOut, Fail, CutOff, Respond, PostMessage, StoreReply,
     HandOff, HandOffUnheard, Go
<1>3. \/ log' = log
      \/ \E from \in {"guest", "host", "ai", "system"}, place \in Nat : Say(from, c, place)
  BY <1>1 DEF NotYours, NothingToAnswer, TimeOut, Fail, CutOff, Respond, PostMessage, StoreReply,
     HandOff, HandOffUnheard, TellHost
<1>4. CASE log' = log
  BY <1>2, <1>4
<1>5. ASSUME NEW from \in {"guest", "host", "ai", "system"}, NEW place \in Nat, Say(from, c, place)
      PROVE  /\ \A i \in 1 .. Len(log) : i \in 1 .. Len(log') /\ log'[i] = log[i]
             /\ \A i \in 1 .. Len(log') : i \in 1 .. Len(log) \/ log'[i].by = c
  <2>1. /\ Len(log') = Len(log) + 1 /\ log'[Len(log')].by = c
        /\ \A i \in 1 .. Len(log) : log'[i] = log[i]
    BY <1>1, <1>5, SayAppends
  <2> QED
    BY <1>1, <2>1
<1> QED
  BY <1>2, <1>3, <1>4, <1>5

(* A guest falls silent only in a step that takes a fault.                 *)
LEMMA SilentOnlyByFault ==
  ASSUME ConciergeInv, NEW c \in GuestPosts,
         \/ NotYours(c) \/ NothingToAnswer(c) \/ TimeOut(c) \/ Respond(c)
         \/ PostMessage(c) \/ (\E v \in Verdicts : StoreReply(c, v)) \/ HandOff(c)
  PROVE  c \notin Silent'
<1>1. TypeOK /\ Len(log) \in Nat /\ call[c].last \in Nat /\ c \in Calls
  BY RowsTyped DEF ConciergeInv, Calls, Posts
<1>2. CASE TimeOut(c) \/ Respond(c) \/ PostMessage(c)
  <2>1. call'[c].at \in {"catch", "wait", "read"}
    BY <1>1, <1>2 DEF TypeOK, TimeOut, Respond, PostMessage, Go
  <2> QED
    BY <2>1 DEF Silent, Over
<1>3. CASE NotYours(c)
  <2>1. log' = log /\ \A i \in 1 .. Len(log) : log[i].by # c
    BY <1>1, <1>3 DEF NotYours, Go, ConciergeInv, PostsFirst
  <2> QED
    BY <2>1 DEF Silent, Said
<1>4. CASE NothingToAnswer(c)
  <2>1. log' = <<>> /\ Len(log') = 0
    BY <1>4 DEF NothingToAnswer
  <2> QED
    BY <2>1 DEF Silent, Said
<1>5. ASSUME NEW from \in {"ai", "system"}, Say(from, c, call[c].last)
      PROVE  c \notin Silent'
  <2>1. /\ log'[Len(log')].from = from /\ log'[Len(log')].by = c
        /\ Len(log') = Len(log) + 1
    BY <1>1, <1>5, SayAppends
  <2>2. Len(log') \in 1 .. Len(log')
    BY <1>1, <2>1
  <2>3. Len(log') \in (Said("ai", c) \cup Said("system", c))'
    BY <2>1, <2>2 DEF Said
  <2> QED
    BY <2>3 DEF Silent
<1> QED
  BY <1>2, <1>3, <1>4, <1>5 DEF StoreReply, HandOff, TellHost

LEMMA SilenceStep ==
  ASSUME SilenceInv, NEW c \in Calls,
         \/ NotYours(c) \/ NothingToAnswer(c) \/ TimeOut(c) \/ Fail(c) \/ CutOff(c) \/ Respond(c)
         \/ PostMessage(c) \/ (\E v \in Verdicts : StoreReply(c, v)) \/ HandOff(c) \/ HandOffUnheard(c)
  PROVE  SilenceOnlyByFaults'
<1>1. /\ \A d \in Calls \ {c} : call'[d] = call[d]
      /\ \A i \in 1 .. Len(log) : i \in 1 .. Len(log') /\ log'[i] = log[i]
      /\ \A i \in 1 .. Len(log') : i \in 1 .. Len(log) \/ log'[i].by = c
  BY OnlyItsOwn DEF SilenceInv
<1>2. ASSUME NEW d \in GuestPosts, d # c, d \in Silent' PROVE d \in Silent
  <2>1. call'[d] = call[d]
    BY <1>1, <1>2 DEF Calls, Posts
  <2>2. \A from : Said(from, d)' = Said(from, d)
    BY <1>1, <1>2 DEF Said
  <2> QED
    BY <1>2, <2>1, <2>2 DEF Silent
<1>3. Silent \subseteq GuestPosts /\ Silent' \subseteq GuestPosts
  BY DEF Silent
<1>4. Cardinality(Silent) <= faults /\ faults \in Nat
  BY DEF SilenceInv, SilenceOnlyByFaults, Silent, ConciergeInv, TypeOK
<1>5. CASE Silent' \subseteq Silent /\ faults' \in {faults, faults + 1}
  <2>1. CASE Silent = {}
    <3>1. Silent' = {}
      BY <1>5, <2>1
    <3>2. Cardinality(Silent') = 0
      BY <3>1, FS_EmptySet, Zenon
    <3>3. Cardinality(Silent') <= faults'
      BY <3>2, <1>4, <1>5
    <3> QED
      BY <3>3 DEF SilenceOnlyByFaults, Silent
  <2>2. CASE Silent # {}
    <3>1. PICK d \in GuestPosts : d \in Silent
      BY <1>3, <2>2
    <3>2. Cardinality(Silent) \in Nat /\ Cardinality(Silent') \in Nat
          /\ Cardinality(Silent') <= Cardinality(Silent)
      BY <1>3, <1>5, OneGuestMore
    <3>3. Cardinality(Silent') <= faults'
      BY <1>4, <1>5, <3>2
    <3> QED
      BY <3>3 DEF SilenceOnlyByFaults, Silent
  <2> QED
    BY <2>1, <2>2
<1>6. CASE c \in GuestPosts /\ Silent' \subseteq Silent \cup {c} /\ faults' = faults + 1
  <2>1. Cardinality(Silent) \in Nat /\ Cardinality(Silent') \in Nat
        /\ Cardinality(Silent') <= Cardinality(Silent) + 1
    BY <1>3, <1>6, OneGuestMore
  <2>2. Cardinality(Silent') <= faults'
    BY <1>4, <1>6, <2>1
  <2> QED
    BY <2>2 DEF SilenceOnlyByFaults, Silent
<1>7. faults' = faults \/ faults' = faults + 1
  BY DEF NotYours, NothingToAnswer, TimeOut, Fail, CutOff, Respond, PostMessage, StoreReply,
     HandOff, HandOffUnheard, Fault
<1>8. CASE c \notin GuestPosts
  BY <1>2, <1>3, <1>5, <1>7, <1>8
<1>9. CASE c \in GuestPosts /\ (Fail(c) \/ CutOff(c) \/ HandOffUnheard(c))
  <2>1. faults' = faults + 1
    BY <1>9 DEF Fail, CutOff, HandOffUnheard, Fault
  <2> QED
    BY <1>2, <1>3, <1>6, <1>9, <2>1
<1>10. CASE /\ c \in GuestPosts
            /\ \/ NotYours(c) \/ NothingToAnswer(c) \/ TimeOut(c) \/ Respond(c)
               \/ PostMessage(c) \/ (\E v \in Verdicts : StoreReply(c, v)) \/ HandOff(c)
  <2>1. c \notin Silent'
    BY <1>10, SilentOnlyByFault DEF SilenceInv
  <2> QED
    BY <1>2, <1>3, <1>5, <1>7, <2>1
<1> QED
  BY <1>8, <1>9, <1>10

LEMMA SilenceInit == Init => SilenceInv
<1> SUFFICES ASSUME Init PROVE SilenceOnlyByFaults
  BY ConciergeInit DEF SilenceInv
<1>1. Silent = {}
  BY DEF Init, Silent, Over, Calls, Posts
<1>2. Cardinality(Silent) = 0 /\ faults = 0
  BY <1>1, FS_EmptySet, Zenon DEF Init
<1> QED
  BY <1>2 DEF SilenceOnlyByFaults, Silent

LEMMA SilenceInvariant == Spec => []SilenceInv
<1>1. ASSUME SilenceInv, UNCHANGED vars PROVE SilenceOnlyByFaults'
  BY <1>1 DEF SilenceInv, SilenceOnlyByFaults, vars, Said
<1>2. SilenceInv /\ [Next]_vars => SilenceInv'
  BY <1>1, SilenceStep, ConciergeStep DEF SilenceInv, Next, Step
<1> QED
  BY <1>2, SilenceInit, PTL DEF Spec

(* Each guest whose stored message got neither a reply nor a hand-off cost *)
(* a fault of the API's own: respond's catch turns every failure of the AI *)
(* service into a hand-off.                                                *)
THEOREM SilenceCostsAFault == Spec => []SilenceOnlyByFaults
<1>1. SilenceInv => SilenceOnlyByFaults
  BY DEF SilenceInv
<1> QED
  BY <1>1, SilenceInvariant, PTL
=============================================================================
