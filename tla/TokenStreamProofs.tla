-------------------------- MODULE TokenStreamProofs --------------------------
(***************************************************************************)
(* The token stream is a cursor, for every lexer: whatever order the       *)
(* parser peeks, takes, marks and resets in, and whatever the script.      *)
(***************************************************************************)
EXTENDS TokenStream, TLAPS

(* The lookahead is what the lexer cuts off where the lookahead was read    *)
(* from, and the lexer stands right behind it.                              *)
Buffered(s) ==
  s.lookahead # <<>> =>
    LET l == s.lookahead[1].from
    IN /\ s.lookahead = <<Lookahead(l)>>
       /\ IsToken(TokenAt(text, l))
       /\ s.lexer = TokenAt(text, l).next
       /\ s.failure = <<>>

IsStream(s) == s = [lexer |-> s.lexer, lookahead |-> s.lookahead, failure |-> s.failure]

StreamOK(s) == IsStream(s) /\ Buffered(s)

BufferInv == StreamOK(stream) /\ \A m \in marks : StreamOK(m.stream)

LEMMA PlaceOfBuffered ==
  ASSUME NEW s, StreamOK(s), s.lookahead # <<>>
  PROVE  /\ s.lookahead[1].token = TokenAt(text, Place(s))
         /\ IsToken(TokenAt(text, Place(s)))
         /\ s.lexer = TokenAt(text, Place(s)).next
         /\ s.failure = <<>>
         /\ LogicalRemaining(s) = BytesLeft(text, Place(s))
  BY DEF StreamOK, Buffered, Place, Lookahead, LogicalRemaining

(* A peek: the stream stays well formed and keeps its place, or settles at   *)
(* an end of the script.                                                     *)
LEMMA PeekedIsOK ==
  ASSUME NEW s, StreamOK(s)
  PROVE  /\ StreamOK(Peeked(s))
         /\ \/ Place(Peeked(s)) = Place(s)
            \/ ~ IsToken(TokenAt(text, Place(s))) /\ Place(Peeked(s)) = TokenAt(text, Place(s)).next
<1>1. CASE s.lookahead # <<>> \/ s.failure # <<>>
  BY <1>1 DEF Peeked
<1> DEFINE t == TokenAt(text, s.lexer)
<1>2. CASE s.lookahead = <<>> /\ s.failure = <<>> /\ IsToken(t)
  <2>1. Peeked(s) = [lexer |-> t.next, lookahead |-> <<Lookahead(s.lexer)>>, failure |-> s.failure]
    BY <1>2 DEF Peeked, StreamOK, IsStream
  <2>2. Lookahead(s.lexer).from = s.lexer
    BY DEF Lookahead
  <2> QED BY <1>2, <2>1, <2>2 DEF StreamOK, IsStream, Buffered, Place
<1>3. CASE s.lookahead = <<>> /\ s.failure = <<>> /\ ~ IsToken(t)
  <2>1. \/ Peeked(s) = [lexer |-> t.next, lookahead |-> <<>>, failure |-> <<t.next>>]
        \/ Peeked(s) = [lexer |-> t.next, lookahead |-> <<>>, failure |-> <<>>]
    BY <1>3 DEF Peeked, StreamOK, IsStream
  <2> QED BY <1>3, <2>1 DEF StreamOK, IsStream, Buffered, Place
<1> QED BY <1>1, <1>2, <1>3

LEMMA BufferInit == Init => BufferInv
  BY DEF Init, BufferInv, StreamOK, IsStream, Buffered

(* Only the stream matters to BufferInv, once the script stays the same. *)
LEMMA BufferStep ==
  ASSUME BufferInv, text' = text, IsStream(stream'), Buffered(stream)', marks' \subseteq marks
  PROVE  BufferInv'
  BY DEF BufferInv, StreamOK, IsStream, Buffered, Lookahead, IsToken

LEMMA BufferNext == BufferInv /\ [Next]_vars => BufferInv'
<1> SUFFICES ASSUME BufferInv, [Next]_vars PROVE BufferInv'
  OBVIOUS
<1>0. StreamOK(stream)
  BY DEF BufferInv
<1>1. CASE Peek
  <2>1. StreamOK(stream')
    BY <1>0, <1>1, PeekedIsOK DEF Peek
  <2> QED BY <1>1, <2>1, BufferStep DEF Peek, StreamOK, Buffered, Lookahead, IsToken
<1>2. CASE NextToken
  <2>1. stream'.lookahead = <<>> /\ IsStream(stream')
    BY <1>0, <1>2, PlaceOfBuffered DEF NextToken, StreamOK, IsStream
  <2> QED BY <1>2, <2>1, BufferStep DEF NextToken, Buffered
<1>3. CASE TakeDelimiter
  <2>1. stream'.lookahead = <<>> /\ IsStream(stream')
    BY <1>0, <1>3 DEF TakeDelimiter, StreamOK, IsStream
  <2> QED BY <1>3, <2>1, BufferStep DEF TakeDelimiter, Buffered
<1>4. CASE Checkpoint
  BY <1>4 DEF Checkpoint, BufferInv, StreamOK, IsStream, Buffered, Lookahead, IsToken
<1>5. CASE Reset
  BY <1>5 DEF Reset, BufferInv, StreamOK, IsStream, Buffered, Lookahead, IsToken
<1>6. CASE Drop
  BY <1>6 DEF Drop, BufferInv, StreamOK, IsStream, Buffered, Lookahead, IsToken
<1>7. CASE UNCHANGED vars
  BY <1>7 DEF vars, BufferInv, StreamOK, IsStream, Buffered, Lookahead, IsToken
<1> QED BY <1>1, <1>2, <1>3, <1>4, <1>5, <1>6, <1>7 DEF Next

LEMMA BufferAlways == Spec => []BufferInv
  BY BufferInit, BufferNext, PTL DEF Spec

-----------------------------------------------------------------------------
Image(M) == {[cursor |-> Place(m.stream), taken |-> m.taken] : m \in M}

(* What next_token does to the place, and what it hands out. *)
LEMMA NextTokenMoves ==
  ASSUME StreamOK(stream), NextToken
  PROVE  \/ /\ IsToken(TokenAt(text, Place(stream)))
            /\ Place(stream') = TokenAt(text, Place(stream)).next
            /\ taken' = Append(taken, TokenAt(text, Place(stream)))
         \/ /\ ~ IsToken(TokenAt(text, Place(stream)))
            /\ Place(stream') = TokenAt(text, Place(stream)).next
            /\ taken' = taken
         \/ Place(stream') = Place(stream) /\ taken' = taken
<1>1. CASE stream.lookahead # <<>>
  <2>1. stream' = [lexer |-> stream.lexer, lookahead |-> <<>>, failure |-> stream.failure]
    BY <1>1 DEF NextToken, StreamOK, IsStream
  <2>2. Place(stream') = stream.lexer
    BY <2>1 DEF Place
  <2>3. taken' = Append(taken, stream.lookahead[1].token)
    BY <1>1 DEF NextToken
  <2> QED BY <1>1, <2>2, <2>3, PlaceOfBuffered
<1>2. CASE stream.lookahead = <<>> /\ stream.failure = <<>>
  <2> DEFINE t == TokenAt(text, stream.lexer)
  <2>1. stream' = [lexer |-> t.next, lookahead |-> <<>>,
                   failure |-> IF t.kind = "error" THEN <<t.next>> ELSE <<>>]
    BY <1>2 DEF NextToken, StreamOK, IsStream
  <2>2. Place(stream) = stream.lexer /\ Place(stream') = t.next
    BY <1>2, <2>1 DEF Place
  <2>3. taken' = IF IsToken(t) THEN Append(taken, t) ELSE taken
    BY <1>2 DEF NextToken
  <2> QED BY <2>2, <2>3
<1>3. CASE stream.lookahead = <<>> /\ stream.failure # <<>>
  BY <1>3 DEF NextToken
<1> QED BY <1>1, <1>2, <1>3

LEMMA DueAtThePlace ==
  ASSUME StreamOK(stream)
  PROVE  DelimiterDue <=> Cursor!DelimiterDue
  BY PlaceOfBuffered DEF DelimiterDue, Cursor!DelimiterDue, Cursor!At, HandedOut, Place

LEMMA DelimiterMoves ==
  ASSUME StreamOK(stream), TakeDelimiter
  PROVE  LET t == TokenAt(text, Place(stream))
         IN /\ taken' = Append(taken, t)
            /\ Place(stream') = Claim(text, t.next, StripsTabs, t)
<1> DEFINE t == TokenAt(text, Place(stream))
           after == IF stream.lookahead # <<>> THEN stream.lexer ELSE t.next
           claimed == Claim(text, after, StripsTabs, t)
<1>1. HandedOut(stream) = t /\ after = t.next
  BY PlaceOfBuffered DEF HandedOut, Place
<1>2. stream' = [lexer |-> claimed, lookahead |-> <<>>, failure |-> stream.failure]
  BY <1>1 DEF TakeDelimiter, StreamOK, IsStream
<1>3. Place(stream') = claimed
  BY <1>2 DEF Place
<1>4. taken' = Append(taken, t)
  BY <1>1 DEF TakeDelimiter
<1> QED BY <1>1, <1>3, <1>4

LEMMA CursorInit == Init => Cursor!Init
  BY DEF Init, Cursor!Init, Place

LEMMA CursorNext == BufferInv /\ [Next]_vars => [Cursor!Next]_(Cursor!vars)
<1> SUFFICES ASSUME BufferInv, [Next]_vars PROVE [Cursor!Next]_(Cursor!vars)
  OBVIOUS
<1> USE DEF Cursor!vars
<1>0. StreamOK(stream)
  BY DEF BufferInv
<1>p. Place(stream)' = Place(stream')
  BY DEF Place
<1>1. CASE Peek
  BY <1>0, <1>p, <1>1, PeekedIsOK DEF Peek, Cursor!Next, Cursor!Settle, Cursor!At, IsToken
<1>2. CASE NextToken
  <2>1. ~ Cursor!DelimiterDue /\ UNCHANGED <<text, marks>>
    BY <1>0, <1>2, DueAtThePlace DEF NextToken
  <2> QED BY <1>0, <1>p, <1>2, <2>1, NextTokenMoves
          DEF Cursor!Next, Cursor!Take, Cursor!Settle, Cursor!At, IsToken
<1>3. CASE TakeDelimiter
  <2>1. Cursor!DelimiterDue /\ UNCHANGED <<text, marks>>
    BY <1>0, <1>3, DueAtThePlace DEF TakeDelimiter
  <2> QED BY <1>0, <1>p, <1>3, <2>1, DelimiterMoves DEF Cursor!Next, Cursor!TakeDelimiter, Cursor!At, StripsTabs, Cursor!StripsTabs
<1>4. CASE Checkpoint
  <2> DEFINE m == [stream |-> stream, taken |-> taken, answer |-> answer]
  <2>1. Image(marks') = Image(marks) \cup {[cursor |-> Place(stream), taken |-> taken]}
    <3>1. marks' = marks \cup {m} /\ m.stream = stream /\ m.taken = taken
      BY <1>4 DEF Checkpoint
    <3> QED BY <3>1 DEF Image
  <2> QED BY <1>4, <2>1 DEF Checkpoint, Image, Cursor!Next, Cursor!Mark
<1>5. CASE Reset
  <2>1. PICK m \in marks : stream' = m.stream /\ taken' = m.taken
    BY <1>5 DEF Reset
  <2> DEFINE c == [cursor |-> Place(m.stream), taken |-> m.taken]
  <2>2. c \in Image(marks) /\ Place(stream)' = c.cursor /\ taken' = c.taken
    BY <1>p, <2>1 DEF Image
  <2>3. UNCHANGED <<text, Image(marks)>>
    BY <1>5 DEF Reset, Image
  <2> QED BY <2>2, <2>3 DEF Image, Cursor!Next, Cursor!Back
<1>6. CASE Drop
  BY <1>6 DEF Drop, Cursor!Next, Cursor!Drop
<1>7. CASE UNCHANGED vars
  BY <1>7 DEF vars
<1> QED BY <1>1, <1>2, <1>3, <1>4, <1>5, <1>6, <1>7 DEF Next

(* The stream with its lookahead buffer, failure snapshot and checkpoints   *)
(* (stream/traits.rs) implements a bare cursor: peeking is invisible and a   *)
(* reset is exact, whatever the lexer.                                       *)
THEOREM StreamIsCursor == Spec => IsCursor
<1>1. Spec => []BufferInv
  BY BufferAlways
<1> QED BY <1>1, CursorInit, CursorNext, PTL DEF Spec, IsCursor, Cursor!Spec

(* A peek that answered with a token moved nothing the parser measures: the *)
(* end of the previous token stays where it was (Lookahead::remaining_before). *)
THEOREM PeekIsNoProgress == Spec => PeekKeepsPlace
<1>1. BufferInv /\ [Next]_vars =>
        [Peek /\ answer' = "token" => LogicalRemaining(stream)' = LogicalRemaining(stream)]_vars
  <2> SUFFICES ASSUME BufferInv, Peek, answer' = "token"
               PROVE  LogicalRemaining(stream') = LogicalRemaining(stream) /\ text' = text
    BY DEF LogicalRemaining
  <2>0. StreamOK(stream) /\ text' = text /\ stream' = Peeked(stream) /\ Peeked(stream).lookahead # <<>>
    BY DEF BufferInv, Peek
  <2>1. CASE stream.lookahead # <<>> \/ stream.failure # <<>>
    <3>1. stream' = stream
      BY <2>0, <2>1 DEF Peeked
    <3> QED BY <2>0, <3>1 DEF LogicalRemaining
  <2>2. CASE stream.lookahead = <<>> /\ stream.failure = <<>>
    <3>1. IsToken(TokenAt(text, stream.lexer))
      BY <2>0, <2>2 DEF Peeked, StreamOK, IsStream
    <3>2. stream'.lookahead = <<Lookahead(stream.lexer)>>
      BY <2>0, <2>2, <3>1 DEF Peeked, StreamOK, IsStream
    <3>3. Lookahead(stream.lexer).remainingBefore = BytesLeft(text, stream.lexer)
      BY DEF Lookahead
    <3> QED BY <2>0, <2>2, <3>2, <3>3 DEF LogicalRemaining
  <2> QED BY <2>1, <2>2, <2>0
<1> QED BY <1>1, BufferAlways, PTL DEF Spec, PeekKeepsPlace

-----------------------------------------------------------------------------
(* A stream whose end is explained: what EndIsExplained says of an answer,  *)
(* and the lexers it needs to be lexers of the script.                      *)
Explained(s, a) ==
  /\ StreamOK(s)
  /\ s.lexer \in Lexers(text) /\ Place(s) \in Lexers(text)
  /\ s.failure # <<>> => TokenAt(text, s.failure[1]).kind = "error"
  /\ a = "none" /\ s.failure = <<>> => TokenAt(text, s.lexer).kind = "eof"

EndInv ==
  /\ text \in Texts
  /\ Explained(stream, answer)
  /\ \A m \in marks : Explained(m.stream, m.answer)

(* Running the lexer once more on a lexer that had nothing to give. *)
LEMMA EndStays ==
  ASSUME text \in Texts, NEW l \in Lexers(text), ~ IsToken(TokenAt(text, l))
  PROVE  /\ TokenAt(text, l).kind \in {"eof", "error"}
         /\ TokenAt(text, TokenAt(text, l).next).kind = TokenAt(text, l).kind
  BY LexerAssumption DEF IsToken, Kind

(* A read that finds nothing buffered, peek or next: the lexer moves on, and *)
(* an end it meets is a true one or leaves its snapshot.                     *)
LEMMA ReadIsExplained ==
  ASSUME text \in Texts, NEW l \in Lexers(text), NEW s, NEW a,
         LET t == TokenAt(text, l)
         IN s = [lexer |-> t.next, lookahead |-> <<>>,
                 failure |-> IF t.kind = "error" THEN <<t.next>> ELSE <<>>],
         a = "none" => ~ IsToken(TokenAt(text, l))
  PROVE  Explained(s, a)
<1>1. TokenAt(text, l).next \in Lexers(text)
  BY LexerAssumption
<1>2. StreamOK(s) /\ Place(s) = s.lexer
  BY DEF StreamOK, IsStream, Buffered, Place
<1>3. ~ IsToken(TokenAt(text, l)) => TokenAt(text, TokenAt(text, l).next).kind = TokenAt(text, l).kind
  BY EndStays
<1>4. TokenAt(text, l).kind = "error" => ~ IsToken(TokenAt(text, l))
  BY DEF IsToken
<1>5. s.failure # <<>> => TokenAt(text, s.failure[1]).kind = "error"
  BY <1>3, <1>4
<1>6. a = "none" /\ s.failure = <<>> => TokenAt(text, s.lexer).kind = "eof"
  BY <1>3, EndStays
<1> QED BY <1>1, <1>2, <1>5, <1>6 DEF Explained

LEMMA PeekIsExplained ==
  ASSUME text \in Texts, NEW a, Explained(stream, a), Peek
  PROVE  Explained(stream', answer')
<1> DEFINE l == stream.lexer
           t == TokenAt(text, l)
<1>1. StreamOK(stream') /\ l \in Lexers(text)
  BY PeekedIsOK DEF Explained, Peek
<1>2. CASE stream.lookahead # <<>>
  BY <1>2 DEF Peek, Peeked, Explained
<1>3. CASE stream.lookahead = <<>> /\ stream.failure # <<>>
  BY <1>3 DEF Peek, Peeked, Explained
<1>4. CASE stream.lookahead = <<>> /\ stream.failure = <<>> /\ IsToken(t)
  <2>1. stream' = [lexer |-> t.next, lookahead |-> <<Lookahead(l)>>, failure |-> <<>>]
    BY <1>4 DEF Peek, Peeked, Explained, StreamOK, IsStream
  <2>2. t.next \in Lexers(text) /\ Place(stream') = l
    BY <1>1, <2>1, LexerAssumption DEF Place, Lookahead
  <2>3. answer' = "token"
    BY <2>1 DEF Peek
  <2> QED BY <1>1, <2>1, <2>2, <2>3 DEF Explained
<1>5. CASE stream.lookahead = <<>> /\ stream.failure = <<>> /\ ~ IsToken(t)
  <2>1. stream' = [lexer |-> t.next, lookahead |-> <<>>,
                   failure |-> IF t.kind = "error" THEN <<t.next>> ELSE <<>>]
    BY <1>5 DEF Peek, Peeked, Explained, StreamOK, IsStream
  <2> QED BY <1>1, <1>5, <2>1, ReadIsExplained
<1> QED BY <1>2, <1>3, <1>4, <1>5

LEMMA NextIsExplained ==
  ASSUME text \in Texts, NEW a, Explained(stream, a), NextToken
  PROVE  Explained(stream', answer')
<1> DEFINE l == stream.lexer
           t == TokenAt(text, l)
<1>1. CASE stream.lookahead # <<>>
  <2>1. stream' = [lexer |-> l, lookahead |-> <<>>, failure |-> stream.failure] /\ answer' = "token"
    BY <1>1 DEF NextToken, Explained, StreamOK, IsStream
  <2>2. StreamOK(stream') /\ Place(stream') = l
    BY <2>1 DEF StreamOK, IsStream, Buffered, Place
  <2> QED BY <2>1, <2>2 DEF Explained
<1>2. CASE stream.lookahead = <<>> /\ stream.failure = <<>>
  <2>1. stream' = [lexer |-> t.next, lookahead |-> <<>>,
                   failure |-> IF t.kind = "error" THEN <<t.next>> ELSE <<>>]
    BY <1>2 DEF NextToken, Explained, StreamOK, IsStream
  <2>2. answer' = "none" => ~ IsToken(t)
    BY <1>2 DEF NextToken
  <2>3. l \in Lexers(text)
    BY DEF Explained
  <2> QED BY <2>1, <2>2, <2>3, ReadIsExplained
<1>3. CASE stream.lookahead = <<>> /\ stream.failure # <<>>
  BY <1>3 DEF NextToken, Explained
<1> QED BY <1>1, <1>2, <1>3

LEMMA DelimiterIsExplained ==
  ASSUME text \in Texts, NEW a, Explained(stream, a), TakeDelimiter
  PROVE  Explained(stream', answer')
<1> DEFINE t == TokenAt(text, Place(stream))
           claimed == Claim(text, t.next, StripsTabs, t)
<1>1. Place(stream') = claimed /\ answer' = "token"
  BY DelimiterMoves DEF Explained, TakeDelimiter
<1>2. t.kind = "word"
  BY PlaceOfBuffered DEF Explained, TakeDelimiter, DelimiterDue, HandedOut, Place
<1>3. claimed \in Lexers(text)
  <2>1. StripsTabs \in BOOLEAN
    BY DEF StripsTabs
  <2> QED BY <1>2, <2>1, LexerAssumption DEF Explained
<1>4. stream' = [lexer |-> stream'.lexer, lookahead |-> <<>>, failure |-> stream.failure]
  BY DEF TakeDelimiter, Explained, StreamOK, IsStream
<1>5. StreamOK(stream') /\ Place(stream') = stream'.lexer
  BY <1>4 DEF StreamOK, IsStream, Buffered, Place
<1> QED BY <1>1, <1>3, <1>4, <1>5 DEF Explained

LEMMA EndNext == EndInv /\ [Next]_vars => EndInv'
<1> SUFFICES ASSUME EndInv, [Next]_vars PROVE EndInv'
  OBVIOUS
<1> DEFINE E(s, a) == Explained(s, a)
<1>0. text' = text /\ text \in Texts /\ Explained(stream, answer)
  BY DEF EndInv, Next, vars, Peek, NextToken, TakeDelimiter, Checkpoint, Reset, Drop
<1>1. \A s, a : Explained(s, a) => Explained(s, a)'
  BY <1>0 DEF Explained, StreamOK, IsStream, Buffered, Place, Lookahead, IsToken
<1>2. ASSUME Explained(stream', answer'), marks' \subseteq marks PROVE EndInv'
  BY <1>0, <1>1, <1>2 DEF EndInv
<1>3. CASE Peek
  BY <1>0, <1>2, <1>3, PeekIsExplained DEF Peek
<1>4. CASE NextToken
  BY <1>0, <1>2, <1>4, NextIsExplained DEF NextToken
<1>5. CASE TakeDelimiter
  BY <1>0, <1>2, <1>5, DelimiterIsExplained DEF TakeDelimiter
<1>6. CASE Checkpoint
  <2>1. stream' = stream /\ answer' = answer
    BY <1>6 DEF Checkpoint
  <2>2. ASSUME NEW m \in marks' PROVE Explained(m.stream, m.answer)
    BY <1>0, <1>6, <2>2 DEF Checkpoint, EndInv
  <2> QED BY <1>0, <1>1, <2>1, <2>2 DEF EndInv
<1>7. CASE Reset
  BY <1>2, <1>7 DEF Reset, EndInv
<1>8. CASE Drop
  BY <1>0, <1>2, <1>8 DEF Drop
<1>9. CASE UNCHANGED vars
  BY <1>0, <1>2, <1>9 DEF vars
<1> QED BY <1>3, <1>4, <1>5, <1>6, <1>7, <1>8, <1>9 DEF Next

LEMMA EndInit == Init => EndInv
<1> SUFFICES ASSUME Init PROVE EndInv
  OBVIOUS
<1>1. stream.lexer = Start /\ Place(stream) = Start /\ Start \in Lexers(text)
  BY LexerAssumption DEF Init, Place
<1>2. StreamOK(stream)
  BY DEF Init, StreamOK, IsStream, Buffered
<1> QED BY <1>1, <1>2 DEF Init, EndInv, Explained

(* A read that returned nothing is explained by the end of the script or by *)
(* a snapshot that still fails (take_lex_error), after any backtracking.     *)
THEOREM EndExplained == Spec => []EndIsExplained
<1>1. EndInv => EndIsExplained
  BY DEF EndInv, Explained, EndIsExplained, LexError
<1> QED BY <1>1, EndInit, EndNext, PTL DEF Spec

-----------------------------------------------------------------------------
(* Where the parser stands follows from the tokens it has taken: each was   *)
(* cut off behind the one before it, and behind a delimiter its heredoc is  *)
(* claimed.  At an end of the script the place may settle once more.        *)

Behind(tokens, i) ==
  IF i = 0 THEN Start
  ELSE IF i > 1 /\ tokens[i - 1].chars \in HeredocOperators /\ tokens[i].kind = "word"
       THEN Claim(text, tokens[i].next, tokens[i - 1].chars \in StrippingOperators, tokens[i])
  ELSE tokens[i].next

Chain(tokens) ==
  /\ tokens \in Seq({TokenAt(text, l) : l \in Lexers(text)})
  /\ \A i \in 0 .. Len(tokens) : Behind(tokens, i) \in Lexers(text)
  /\ \A i \in DOMAIN tokens : tokens[i] = TokenAt(text, Behind(tokens, i - 1)) /\ IsToken(tokens[i])
  /\ \A i, j \in 0 .. Len(tokens) :
       i <= j => BytesLeft(text, Behind(tokens, j)) <= BytesLeft(text, Behind(tokens, i))

Stands(place, tokens) ==
  LET behind == Behind(tokens, Len(tokens))
  IN  \/ place = behind
      \/ /\ place \in Lexers(text)
         /\ ~ IsToken(TokenAt(text, behind)) /\ ~ IsToken(TokenAt(text, place))
         /\ BytesLeft(text, place) <= BytesLeft(text, behind)

Walked(s, tokens) == StreamOK(s) /\ Chain(tokens) /\ Stands(Place(s), tokens)

SpanInv ==
  /\ text \in Texts
  /\ Walked(stream, taken)
  /\ \A m \in marks : Walked(m.stream, m.taken)

LEMMA BehindOfMore ==
  ASSUME Chain(taken), NEW t, NEW i \in 0 .. Len(taken)
  PROVE  Behind(Append(taken, t), i) = Behind(taken, i)
<1>1. Len(taken) \in Nat /\ \A j \in 1 .. Len(taken) : Append(taken, t)[j] = taken[j]
  BY DEF Chain
<1>2. CASE i = 0
  BY <1>2 DEF Behind
<1>3. CASE i # 0
  <2>1. Append(taken, t)[i] = taken[i] /\ (i > 1 => Append(taken, t)[i - 1] = taken[i - 1])
    BY <1>1, <1>3
  <2> QED BY <1>3, <2>1 DEF Behind
<1> QED BY <1>2, <1>3

(* One more token, cut off behind the last one.                             *)
LEMMA ChainGrows ==
  ASSUME text \in Texts, Chain(taken), NEW t,
         t = TokenAt(text, Behind(taken, Len(taken))), IsToken(t)
  PROVE  /\ Chain(Append(taken, t))
         /\ Behind(Append(taken, t), Len(taken) + 1) =
              IF taken # <<>> /\ taken[Len(taken)].chars \in HeredocOperators /\ t.kind = "word"
              THEN Claim(text, t.next, taken[Len(taken)].chars \in StrippingOperators, t)
              ELSE t.next
<1> DEFINE more == Append(taken, t)
           n == Len(taken)
           S == {TokenAt(text, l) : l \in Lexers(text)}
           last == Behind(taken, n)
           new == Behind(more, n + 1)
<1>1. n \in Nat /\ taken \in Seq(S) /\ last \in Lexers(text) /\ t \in S
  BY DEF Chain
<1>2. more \in Seq(S) /\ Len(more) = n + 1 /\ more[n + 1] = t /\ \A i \in 1 .. n : more[i] = taken[i]
  BY <1>1
<1>3. taken # <<>> <=> n + 1 > 1
  BY <1>1
<1>4. new = IF taken # <<>> /\ taken[n].chars \in HeredocOperators /\ t.kind = "word"
            THEN Claim(text, t.next, taken[n].chars \in StrippingOperators, t) ELSE t.next
  <2>1. n + 1 > 1 => more[n + 1 - 1] = taken[n]
    BY <1>1, <1>2
  <2> QED BY <1>1, <1>2, <1>3, <2>1, SMTT(40) DEF Behind
<1>5. new \in Lexers(text) /\ BytesLeft(text, new) <= BytesLeft(text, last)
  <2>1. /\ t.next \in Lexers(text)
        /\ BytesLeft(text, t.next) <= BytesLeft(text, t.start)
        /\ BytesLeft(text, t.start) <= BytesLeft(text, last)
        /\ BytesLeft(text, last) \in Nat /\ BytesLeft(text, t.start) \in Nat
        /\ BytesLeft(text, t.next) \in Nat
    BY <1>1, LexerAssumption, ProgressAssumption
  <2>2. ASSUME NEW strip \in BOOLEAN, t.kind = "word"
        PROVE  /\ Claim(text, t.next, strip, t) \in Lexers(text)
               /\ BytesLeft(text, Claim(text, t.next, strip, t)) <= BytesLeft(text, t.next)
               /\ BytesLeft(text, Claim(text, t.next, strip, t)) \in Nat
    <3>1. Claim(text, t.next, strip, t) \in Lexers(text)
      BY <1>1, <2>2, LexerAssumption
    <3> QED BY <1>1, <2>2, <3>1, ProgressAssumption
  <2>3. CASE new = t.next
    BY <2>1, <2>3
  <2>4. CASE new # t.next
    <3>1. t.kind = "word" /\ new = Claim(text, t.next, taken[n].chars \in StrippingOperators, t)
      BY <1>4, <2>4
    <3>2. (taken[n].chars \in StrippingOperators) \in BOOLEAN
      OBVIOUS
    <3> HIDE DEF new
    <3>3. /\ new \in Lexers(text) /\ BytesLeft(text, new) <= BytesLeft(text, t.next)
          /\ BytesLeft(text, new) \in Nat
      BY <2>2, <3>1, <3>2
    <3> QED BY <2>1, <3>3
  <2> QED BY <2>3, <2>4
<1>6. \A i \in 0 .. n : Behind(more, i) = Behind(taken, i) /\ Behind(more, i) \in Lexers(text)
  BY BehindOfMore DEF Chain
<1>7. \A i \in 0 .. n + 1 : i \in 0 .. n \/ i = n + 1
  BY <1>1
<1> HIDE DEF more, new
<1>8. \A i \in 0 .. Len(more) : Behind(more, i) \in Lexers(text)
  BY <1>2, <1>5, <1>6, <1>7 DEF new
<1>9. \A i \in DOMAIN more : more[i] = TokenAt(text, Behind(more, i - 1)) /\ IsToken(more[i])
  <2> SUFFICES ASSUME NEW i \in DOMAIN more
               PROVE  more[i] = TokenAt(text, Behind(more, i - 1)) /\ IsToken(more[i])
    OBVIOUS
  <2>1. i \in 1 .. n + 1 /\ i - 1 \in 0 .. n
    BY <1>1, <1>2
  <2>2. Behind(more, i - 1) = Behind(taken, i - 1)
    BY <1>6, <2>1
  <2>3. CASE i = n + 1
    BY <1>1, <1>2, <2>2, <2>3
  <2>4. CASE i # n + 1
    BY <1>1, <1>2, <2>1, <2>2, <2>4 DEF Chain
  <2> QED BY <2>3, <2>4
<1>10. \A i, j \in 0 .. Len(more) :
         i <= j => BytesLeft(text, Behind(more, j)) <= BytesLeft(text, Behind(more, i))
  <2> SUFFICES ASSUME NEW i \in 0 .. n + 1, NEW j \in 0 .. n + 1, i <= j
               PROVE  BytesLeft(text, Behind(more, j)) <= BytesLeft(text, Behind(more, i))
    BY <1>2
  <2>1. \A k \in 0 .. n + 1 : BytesLeft(text, Behind(more, k)) \in Nat
    BY <1>2, <1>8, ProgressAssumption
  <2>2. CASE j \in 0 .. n
    <3>1. i \in 0 .. n
      BY <2>2
    <3> QED BY <1>6, <2>2, <3>1 DEF Chain
  <2>3. CASE j = n + 1 /\ i \in 0 .. n
    <3>1. BytesLeft(text, last) <= BytesLeft(text, Behind(more, i))
      BY <1>1, <1>6, <2>3 DEF Chain
    <3>2. BytesLeft(text, last) \in Nat
      BY <1>1, ProgressAssumption
    <3>3. BytesLeft(text, Behind(more, j)) <= BytesLeft(text, last)
      BY <1>5, <2>3 DEF new
    <3> QED BY <2>1, <3>1, <3>2, <3>3
  <2>4. CASE j = n + 1 /\ i = n + 1
    BY <2>1, <2>4
  <2> QED BY <1>7, <2>2, <2>3, <2>4
<1> QED BY <1>2, <1>4, <1>8, <1>9, <1>10 DEF Chain, more, new

(* A token at the place is the one behind the last token taken.             *)
LEMMA StandsAtToken ==
  ASSUME NEW place, NEW tokens, Stands(place, tokens), IsToken(TokenAt(text, place))
  PROVE  place = Behind(tokens, Len(tokens))
  BY DEF Stands

LEMMA StandsSettled ==
  ASSUME text \in Texts, NEW place, NEW tokens, Chain(tokens), Stands(place, tokens),
         ~ IsToken(TokenAt(text, place))
  PROVE  Stands(TokenAt(text, place).next, tokens)
<1> DEFINE behind == Behind(tokens, Len(tokens))
           t == TokenAt(text, place)
<1>1. Len(tokens) \in Nat /\ behind \in Lexers(text) /\ place \in Lexers(text)
  BY DEF Chain, Stands
<1>2. /\ t.next \in Lexers(text)
      /\ BytesLeft(text, t.next) <= BytesLeft(text, place)
  <2>1. t.next \in Lexers(text)
    BY <1>1, LexerAssumption
  <2>2. /\ BytesLeft(text, t.next) \in Nat /\ BytesLeft(text, t.start) \in Nat /\ BytesLeft(text, place) \in Nat
        /\ BytesLeft(text, t.start) <= BytesLeft(text, place)
        /\ BytesLeft(text, t.next) <= BytesLeft(text, t.start)
    BY <1>1, <2>1, ProgressAssumption
  <2> QED BY <2>1, <2>2
<1>3. ~ IsToken(TokenAt(text, t.next))
  BY <1>1, EndStays DEF IsToken
<1>4. /\ ~ IsToken(TokenAt(text, behind)) /\ BytesLeft(text, place) <= BytesLeft(text, behind)
      /\ BytesLeft(text, behind) \in Nat /\ BytesLeft(text, place) \in Nat /\ BytesLeft(text, t.next) \in Nat
  BY <1>1, <1>2, ProgressAssumption DEF Stands
<1>5. BytesLeft(text, t.next) <= BytesLeft(text, behind)
  BY <1>2, <1>4
<1> QED BY <1>2, <1>3, <1>4, <1>5 DEF Stands

LEMMA SpanInit == Init => SpanInv
<1> SUFFICES ASSUME Init PROVE SpanInv
  OBVIOUS
<1>1. Place(stream) = Start /\ StreamOK(stream) /\ taken = <<>> /\ marks = {} /\ text \in Texts
  BY DEF Init, Place, StreamOK, IsStream, Buffered
<1>2. Behind(<<>>, 0) = Start /\ Start \in Lexers(text)
  BY <1>1, LexerAssumption DEF Behind
<1>3. Chain(<<>>)
  <2>1. BytesLeft(text, Start) \in Nat
    BY <1>1, <1>2, ProgressAssumption
  <2>2. \A i \in 0 .. Len(<<>>) : i = 0
    OBVIOUS
  <2> QED BY <1>2, <2>1, <2>2 DEF Chain
<1>4. Stands(Start, <<>>)
  BY <1>2 DEF Stands
<1> QED BY <1>1, <1>3, <1>4 DEF SpanInv, Walked

LEMMA SpanNext == SpanInv /\ BufferInv /\ [Next]_vars => SpanInv'
<1> SUFFICES ASSUME SpanInv, BufferInv, [Next]_vars PROVE SpanInv'
  OBVIOUS
<1>0. text' = text /\ text \in Texts /\ Walked(stream, taken) /\ StreamOK(stream) /\ Chain(taken)
  BY DEF SpanInv, Walked, Next, vars, Peek, NextToken, TakeDelimiter, Checkpoint, Reset, Drop
<1>1. \A s, tokens : Walked(s, tokens) => Walked(s, tokens)'
  <2>1. \A s : StreamOK(s)' <=> StreamOK(s)
    BY <1>0 DEF StreamOK, IsStream, Buffered, Place, Lookahead, IsToken
  <2>2. \A tokens, i : Behind(tokens, i)' = Behind(tokens, i)
    BY <1>0 DEF Behind
  <2>3. \A tokens : Chain(tokens)' <=> Chain(tokens)
    BY <1>0, <2>2 DEF Chain, IsToken
  <2>4. \A s, tokens : Stands(Place(s), tokens)' <=> Stands(Place(s), tokens)
    BY <1>0, <2>2 DEF Stands, Place, IsToken
  <2> QED BY <2>1, <2>3, <2>4 DEF Walked
<1>2. ASSUME Walked(stream', taken'), marks' \subseteq marks PROVE SpanInv'
  BY <1>0, <1>1, <1>2 DEF SpanInv
<1>b. StreamOK(stream')
  <2>1. BufferInv'
    BY BufferNext
  <2>2. StreamOK(stream)'
    BY <2>1 DEF BufferInv
  <2> QED BY <1>0, <2>2 DEF StreamOK, IsStream, Buffered, Lookahead, IsToken
<1>3. CASE Peek
  <2>1. Place(stream') = Place(stream) \/
          (~ IsToken(TokenAt(text, Place(stream))) /\ Place(stream') = TokenAt(text, Place(stream)).next)
    BY <1>0, <1>3, PeekedIsOK DEF Peek
  <2>2. taken' = taken /\ marks' = marks
    BY <1>3 DEF Peek
  <2>3. Stands(Place(stream'), taken)
    BY <1>0, <2>1, StandsSettled DEF Walked
  <2> QED BY <1>0, <1>2, <1>b, <2>2, <2>3 DEF Walked
<1>4. CASE NextToken
  <2> DEFINE t == TokenAt(text, Place(stream))
  <2>1. CASE IsToken(t) /\ Place(stream') = t.next /\ taken' = Append(taken, t)
    <3>1. t = TokenAt(text, Behind(taken, Len(taken)))
      BY <1>0, <2>1, StandsAtToken DEF Walked
    <3>2. ~ (taken # <<>> /\ taken[Len(taken)].chars \in HeredocOperators /\ t.kind = "word")
      BY <1>0, <1>4, DueAtThePlace DEF NextToken, Cursor!DelimiterDue, Cursor!At
    <3>3. Chain(taken') /\ Behind(taken', Len(taken) + 1) = t.next
      BY <1>0, <2>1, <3>1, <3>2, ChainGrows
    <3>4. Len(taken') = Len(taken) + 1
      BY <1>0, <2>1 DEF Chain
    <3>5. Stands(Place(stream'), taken')
      BY <2>1, <3>3, <3>4 DEF Stands
    <3> QED BY <1>2, <1>4, <1>b, <3>3, <3>5 DEF Walked, NextToken
  <2>2. CASE ~ IsToken(t) /\ Place(stream') = t.next /\ taken' = taken
    <3>1. Stands(Place(stream'), taken)
      BY <1>0, <2>2, StandsSettled DEF Walked
    <3> QED BY <1>0, <1>2, <1>4, <1>b, <2>2, <3>1 DEF Walked, NextToken
  <2>3. CASE Place(stream') = Place(stream) /\ taken' = taken
    BY <1>0, <1>2, <1>4, <1>b, <2>3 DEF Walked, NextToken
  <2> QED BY <1>0, <1>4, <2>1, <2>2, <2>3, NextTokenMoves
<1>5. CASE TakeDelimiter
  <2> DEFINE t == TokenAt(text, Place(stream))
  <2>1. /\ taken # <<>> /\ taken[Len(taken)].chars \in HeredocOperators /\ t.kind = "word"
    BY <1>0, <1>5, DueAtThePlace DEF TakeDelimiter, Cursor!DelimiterDue, Cursor!At
  <2>2. taken' = Append(taken, t) /\ Place(stream') = Claim(text, t.next, StripsTabs, t)
    BY <1>0, <1>5, DelimiterMoves
  <2>3. t = TokenAt(text, Behind(taken, Len(taken))) /\ IsToken(t)
    BY <1>0, <2>1, StandsAtToken DEF Walked, IsToken
  <2>4. Chain(taken') /\ Behind(taken', Len(taken) + 1) = Place(stream')
    BY <1>0, <2>1, <2>2, <2>3, ChainGrows DEF StripsTabs
  <2>5. Len(taken') = Len(taken) + 1
    BY <1>0, <2>2 DEF Chain
  <2>6. Stands(Place(stream'), taken')
    BY <2>4, <2>5 DEF Stands
  <2> QED BY <1>2, <1>5, <1>b, <2>4, <2>6 DEF Walked, TakeDelimiter
<1>6. CASE Checkpoint
  <2>1. stream' = stream /\ taken' = taken
    BY <1>6 DEF Checkpoint
  <2>2. ASSUME NEW m \in marks' PROVE Walked(m.stream, m.taken)
    BY <1>0, <1>6, <2>2 DEF Checkpoint, SpanInv
  <2> QED BY <1>0, <1>1, <2>1, <2>2 DEF SpanInv
<1>7. CASE Reset
  BY <1>2, <1>7 DEF Reset, SpanInv
<1>8. CASE Drop
  BY <1>0, <1>2, <1>8 DEF Drop
<1>9. CASE UNCHANGED vars
  BY <1>0, <1>2, <1>9 DEF vars
<1> QED BY <1>3, <1>4, <1>5, <1>6, <1>7, <1>8, <1>9 DEF Next

(* helpers::spanned, over any lexer and after any peeks and resets: what is *)
(* parsed between a checkpoint and a later token starts at its first token, *)
(* not before the end of the token before it, and ends behind its last.     *)
THEOREM SpansOrdered == Spec => []SpansAreOrdered
<1>1. SpanInv => SpansAreOrdered
  <2> SUFFICES ASSUME SpanInv, NEW m \in marks, Len(m.taken) < Len(taken),
                      SubSeq(taken, 1, Len(m.taken)) = m.taken
               PROVE  /\ PreviousTokenEnd(m.stream) <= CurrentTokenStart(m.stream)
                      /\ CurrentTokenStart(m.stream) < PreviousTokenEnd(stream)
    BY DEF SpansAreOrdered
  <2> DEFINE n == Len(m.taken)
             s == m.stream
             l == Behind(m.taken, n)
             t == TokenAt(text, l)
  <2>1. /\ Walked(stream, taken) /\ Walked(s, m.taken) /\ text \in Texts
        /\ n \in Nat /\ Len(taken) \in Nat
        /\ \A i \in 1 .. n : m.taken[i] = taken[i]
    <3>1. Walked(stream, taken) /\ Walked(s, m.taken) /\ text \in Texts
      BY DEF SpanInv
    <3>2. n \in Nat /\ Len(taken) \in Nat /\ taken \in Seq({TokenAt(text, x) : x \in Lexers(text)})
      BY <3>1 DEF Walked, Chain
    <3>3. \A i \in 1 .. n : SubSeq(taken, 1, n)[i] = taken[i]
      BY <3>2
    <3> QED BY <3>1, <3>2, <3>3
  <2>2. Behind(taken, n) = l
    <3>1. CASE n = 0
      BY <3>1 DEF Behind
    <3>2. CASE n # 0
      <4>1. m.taken[n] = taken[n] /\ (n > 1 => m.taken[n - 1] = taken[n - 1])
        BY <2>1, <3>2
      <4> QED BY <3>2, <4>1 DEF Behind
    <3> QED BY <3>1, <3>2
  <2>3. /\ n + 1 \in DOMAIN taken /\ n + 1 \in 0 .. Len(taken)
        /\ taken[n + 1] = t /\ IsToken(t)
        /\ l \in Lexers(text)
    <3>1. DOMAIN taken = 1 .. Len(taken)
      BY <2>1 DEF Walked, Chain
    <3>2. n + 1 \in DOMAIN taken /\ n + 1 \in 0 .. Len(taken) /\ n + 1 - 1 = n /\ n \in 0 .. Len(taken)
      BY <2>1, <3>1
    <3> QED BY <2>1, <2>2, <3>2 DEF Walked, Chain
  <2>4. Place(s) = l
    BY <2>1, <2>3 DEF Walked, Stands
  <2> DEFINE b(x) == BytesLeft(text, x)
  <2>5. /\ t.next \in Lexers(text)
        /\ b(l) \in Nat /\ b(t.start) \in Nat /\ b(t.next) \in Nat
        /\ b(t.start) <= b(l) /\ b(t.next) < b(t.start)
    <3>1. t.next \in Lexers(text)
      BY <2>1, <2>3, LexerAssumption
    <3> QED BY <2>1, <2>3, <3>1, ProgressAssumption DEF IsToken
  <2>6. b(Behind(taken, n + 1)) <= b(t.next)
    <3>1. CASE Behind(taken, n + 1) = t.next
      BY <2>5, <3>1
    <3>2. CASE Behind(taken, n + 1) # t.next
      <4>1. t.kind = "word" /\ Behind(taken, n + 1) = Claim(text, t.next, taken[n + 1 - 1].chars \in StrippingOperators, t)
        <5> DEFINE N == n + 1
        <5>1. N # 0 /\ taken[N] = t
          BY <2>1, <2>3
        <5> HIDE DEF N, t
        <5>2. Behind(taken, N) # t.next
          BY <3>2 DEF N
        <5>3. t.kind = "word" /\ Behind(taken, N) = Claim(text, t.next, taken[N - 1].chars \in StrippingOperators, t)
          BY <5>1, <5>2, Zenon DEF Behind
        <5> QED BY <5>3 DEF N
      <4>2. (taken[n + 1 - 1].chars \in StrippingOperators) \in BOOLEAN
        OBVIOUS
      <4> QED BY <2>1, <2>3, <4>1, <4>2, ProgressAssumption
    <3> QED BY <3>1, <3>2
  <2>7. b(Place(stream)) <= b(Behind(taken, n + 1)) /\ b(Place(stream)) \in Nat /\ b(Behind(taken, n + 1)) \in Nat
    <3> DEFINE last == Behind(taken, Len(taken))
    <3>1. Len(taken) \in 0 .. Len(taken) /\ n + 1 <= Len(taken)
      BY <2>1
    <3>2. /\ last \in Lexers(text) /\ Behind(taken, n + 1) \in Lexers(text)
          /\ b(last) <= b(Behind(taken, n + 1))
      BY <2>1, <2>3, <3>1 DEF Walked, Chain
    <3>3. Place(stream) \in Lexers(text) /\ (Place(stream) = last \/ b(Place(stream)) <= b(last))
      BY <2>1, <3>2 DEF Walked, Stands
    <3>4. b(last) \in Nat /\ b(Behind(taken, n + 1)) \in Nat /\ b(Place(stream)) \in Nat
      BY <2>1, <3>2, <3>3, ProgressAssumption
    <3> HIDE DEF last, b
    <3> QED BY <3>2, <3>3, <3>4
  <2>8. LogicalRemaining(s) = b(l) /\ LogicalRemaining(stream) = b(Place(stream))
    BY <2>1, <2>4, PlaceOfBuffered DEF Walked, LogicalRemaining, Place
  <2>9. TokenStartRemaining(s) \in {b(l), b(t.start)}
    <3>1. CASE s.lookahead # <<>>
      <4>1. Peeked(s) = s /\ s.lookahead[1].tokenStart = b(t.start)
        BY <2>1, <2>4, <3>1 DEF Peeked, Walked, StreamOK, Buffered, Lookahead, Place
      <4> QED BY <3>1, <4>1 DEF TokenStartRemaining
    <3>2. CASE s.lookahead = <<>> /\ s.failure # <<>>
      BY <2>4, <3>2 DEF TokenStartRemaining, Peeked, Place
    <3>3. CASE s.lookahead = <<>> /\ s.failure = <<>>
      <4>1. s.lexer = l
        BY <2>4, <3>3 DEF Place
      <4>2. Peeked(s) = [lexer |-> t.next, lookahead |-> <<Lookahead(l)>>, failure |-> s.failure]
        BY <2>1, <2>3, <3>3, <4>1 DEF Peeked, Walked, StreamOK, IsStream
      <4>3. Lookahead(l).tokenStart = b(t.start)
        BY DEF Lookahead
      <4> QED BY <4>2, <4>3 DEF TokenStartRemaining
    <3> QED BY <3>1, <3>2, <3>3
  <2>10. BytesLeft(text, Start) \in Nat
    BY <2>1, LexerAssumption, ProgressAssumption
  <2> HIDE DEF b, t, l
  <2> QED BY <2>5, <2>6, <2>7, <2>8, <2>9, <2>10 DEF PreviousTokenEnd, CurrentTokenStart
<1>2. Spec => []SpanInv
  <2>1. Init => SpanInv /\ BufferInv
    BY SpanInit, BufferInit
  <2>2. SpanInv /\ BufferInv /\ [Next]_vars => SpanInv' /\ BufferInv'
    BY SpanNext, BufferNext
  <2> QED BY <2>1, <2>2, PTL DEF Spec
<1> QED BY <1>1, <1>2, PTL

=============================================================================
