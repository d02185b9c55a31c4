-------------------------- MODULE BlockReaderProofs --------------------------
(***************************************************************************)
(* Proofs about BlockReader, for any text, and for whatever main does with *)
(* a block.                                                                *)
(*                                                                         *)
(* The input is what of the text is behind Position.  A block is open      *)
(* behind a line exactly if the line is one of a block and either opens    *)
(* one or stands behind a line with one open (OpenStep); multiline says    *)
(* so of the line that was read last, and when a block has been taken none *)
(* is open (Closed).                                                       *)
(***************************************************************************)
EXTENDS BlockReader, SequenceTheorems, FiniteSetTheorems, TLAPS

\* Behind a block that has been read none is open.
Closed == mode = "repl" /\ phase \in {"parse", "run"} => ~OpenBehind(Position)

IInv == ReaderTypeOK /\ PromptAsTyped /\ FileAsWritten /\ Closed

-----------------------------------------------------------------------------
(* The input. *)

LEMMA OneLine ==
  ASSUME ReaderTypeOK, input # <<>>, input' = Tail(input), text' = text
  PROVE  /\ Position + 1 \in 1..Len(text)
         /\ Position' = Position + 1
         /\ Head(input) = text[Position + 1]
         /\ text[Position + 1] \in AnyLine
         /\ input' = SubSeq(text, Position + 2, Len(text))
  <1> DEFINE p == Position
  <1>1. /\ text \in Seq(AnyLine) /\ Len(text) \in Nat /\ p \in 0..Len(text)
        /\ input = SubSeq(text, p + 1, Len(text))
    BY DEF ReaderTypeOK, Texts
  <1>2. p = Len(text) - Len(input) /\ Position' = Len(text) - Len(Tail(input))
    BY DEF Position
  <1> HIDE DEF p
  <1>3. p + 1 \in 1..Len(text)
    <2>1. p + 1 > Len(text) => input = <<>>
      BY <1>1, SubSeqEmpty
    <2> QED BY <1>1, <2>1
  <1>4. \A i \in p + 1 .. Len(text) : text[i] \in AnyLine
    BY <1>1
  <1>5. /\ input \in Seq(AnyLine)
        /\ Len(input) = Len(text) - p
    <2>1. p + 1 \in Int
      BY <1>1
    <2>2. /\ SubSeq(text, p + 1, Len(text)) \in Seq(AnyLine)
          /\ Len(SubSeq(text, p + 1, Len(text)))
               = IF p + 1 <= Len(text) THEN Len(text) - (p + 1) + 1 ELSE 0
      BY <1>1, <1>4, <2>1, SubSeqProperties
    <2> QED BY <1>1, <1>3, <2>2
  <1>6. Len(Tail(input)) = Len(input) - 1
    BY <1>5, HeadTailProperties
  <1>7. /\ Head(SubSeq(text, p + 1, Len(text))) = text[p + 1]
        /\ Tail(SubSeq(text, p + 1, Len(text))) = SubSeq(text, p + 1 + 1, Len(text))
    <2>1. Len(text) \in p + 1 .. Len(text)
      BY <1>1, <1>3
    <2> QED BY <1>1, <1>3, <2>1, HeadTailOfSubSeq
  <1>8. Position' = p + 1
    <2>1. Len(text) \in Int /\ p \in Int
      BY <1>1
    <2>2. Position' = Len(text) - (Len(text) - p - 1)
      BY <1>2, <1>5, <1>6
    <2> QED BY <2>1, <2>2
  <1>9. p + 1 + 1 = p + 2
    BY <1>1
  <1> QED BY <1>1, <1>3, <1>7, <1>8, <1>9 DEF p

LEMMA SameLine ==
  ASSUME UNCHANGED <<text, input>>
  PROVE  Position' = Position
  BY DEF Position

\* The conjuncts of ReaderTypeOK about the input.
Where ==
  /\ Position \in 0..Len(text)
  /\ input = SubSeq(text, Position + 1, Len(text))

LEMMA WhereStep ==
  ASSUME ReaderTypeOK, [ReaderNext]_reader
  PROVE  Where' /\ mode' = mode /\ text' = text
  <1>0. mode' = mode /\ text' = text
    BY DEF ReaderNext, EndOfFile, LeaveOut, Collect, Refuse, File, FileLine, Prompt, NextLine,
           EndOfInput, SkipBlank, EndBlock, Content, Misindented, ReadLine, TakeBlock, Executed,
           Restart, reader
  <1>1. CASE input # <<>> /\ input' = Tail(input)
    <2>1. /\ Position + 1 \in 1..Len(text) /\ Position' = Position + 1
          /\ input' = SubSeq(text, Position + 2, Len(text))
      BY <1>0, <1>1, OneLine
    <2>2. Position \in Nat /\ Len(text) \in Nat
      BY DEF ReaderTypeOK, Texts
    <2>3. Position + 1 + 1 = Position + 2
      BY <2>2
    <2> QED BY <1>0, <2>1, <2>2, <2>3 DEF Where
  <1>2. CASE UNCHANGED input
    BY <1>0, <1>2, SameLine DEF Where, ReaderTypeOK
  <1>3. CASE Restart
    <2>1. text \in Seq(AnyLine) /\ Len(text) \in Nat
      BY DEF ReaderTypeOK, Texts
    <2>2. Position' = 0
      BY <1>3, <2>1 DEF Restart, Position
    <2>3. SubSeq(text, 1, Len(text)) = text
      BY <2>1, SubSeqFull
    <2> QED BY <1>0, <1>3, <2>1, <2>2, <2>3 DEF Where, Restart
  <1> QED
    BY <1>1, <1>2, <1>3
    DEF ReaderNext, EndOfFile, LeaveOut, Collect, Refuse, File, FileLine, Prompt, NextLine,
        EndOfInput, SkipBlank, EndBlock, Content, Misindented, ReadLine, TakeBlock, Executed,
        reader

\* Every action either leaves the lines, has none of them, or adds the next line.
LEMMA LinesStep ==
  ASSUME ReaderTypeOK, [ReaderNext]_reader
  PROVE  \/ lines' = lines
         \/ lines' = <<>>
         \/ (Collect \/ ReadLine) /\ lines' = Append(lines, Head(input))
  BY DEF ReaderNext, EndOfFile, LeaveOut, Collect, Refuse, File, FileLine, Prompt, NextLine,
         EndOfInput, SkipBlank, EndBlock, Content, Misindented, ReadLine, TakeBlock, Executed,
         Restart, reader

LEMMA TypeStep ==
  ASSUME ReaderTypeOK, PromptAsTyped, [ReaderNext]_reader
  PROVE  ReaderTypeOK'
  <1>1. Where' /\ mode' = mode /\ text' = text
    BY WhereStep
  <1>2. phase' \in {"read", "parse", "run", "quit"} /\ multiline' \in BOOLEAN
    BY DEF ReaderTypeOK, ReaderNext, EndOfFile, LeaveOut, Collect, Refuse, File, FileLine, Prompt,
           NextLine, EndOfInput, SkipBlank, EndBlock, Content, Misindented, ReadLine, TakeBlock,
           Executed, Restart, reader
  <1>3. /\ lines' \in Texts
        /\ \A i \in DOMAIN lines' : IsAligned(lines'[i]) /\ ~IsBlank(lines'[i])
    <2>1. CASE lines' = lines
      BY <2>1 DEF ReaderTypeOK
    <2>3. CASE lines' = <<>>
      <3>1. <<>> \in Seq(AnyLine) /\ DOMAIN <<>> = {}
        BY EmptySeq
      <3> QED BY <2>3, <3>1 DEF Texts
    <2>2. CASE (Collect \/ ReadLine) /\ lines' = Append(lines, Head(input))
      <3> DEFINE l == Head(input)
      <3>1. l \in AnyLine
        BY <2>2, <1>1, OneLine DEF Collect, FileLine, ReadLine, Content, NextLine
      <3>2. IsAligned(l) /\ ~IsBlank(l)
        BY <2>2 DEF Collect, ReadLine, Content, NextLine, Prompt, PromptAsTyped
      <3>3. lines \in Seq(AnyLine) /\ DOMAIN lines = 1..Len(lines) /\ Len(lines) \in Nat
        BY DEF ReaderTypeOK, Texts
      <3> HIDE DEF l
      <3>4. /\ Append(lines, l) \in Seq(AnyLine)
            /\ Len(Append(lines, l)) = Len(lines) + 1
            /\ \A i \in 1..Len(lines) : Append(lines, l)[i] = lines[i]
            /\ Append(lines, l)[Len(lines) + 1] = l
        BY <3>1, <3>3, AppendProperties
      <3>5. DOMAIN Append(lines, l) = 1..Len(lines) + 1
        BY <3>4
      <3>6. \A i \in 1..Len(lines) : IsAligned(lines[i]) /\ ~IsBlank(lines[i])
        BY <3>3 DEF ReaderTypeOK
      <3>7. ASSUME NEW i \in 1..Len(lines) + 1
            PROVE  IsAligned(Append(lines, l)[i]) /\ ~IsBlank(Append(lines, l)[i])
        <4>1. CASE i = Len(lines) + 1
          BY <4>1, <3>2, <3>4
        <4>2. CASE i \in 1..Len(lines)
          BY <4>2, <3>4, <3>6
        <4> QED BY <3>3, <4>1, <4>2
      <3>8. lines' = Append(lines, l)
        BY <2>2 DEF l
      <3> QED BY <3>4, <3>5, <3>7, <3>8 DEF Texts
    <2> QED BY <2>1, <2>2, <2>3, LinesStep
  <1>4. multiline' => mode' = "repl" /\ lines' # <<>>
    <2>1. CASE ReadLine
      <3>1. Head(input) \in AnyLine /\ lines \in Seq(AnyLine)
        BY <1>1, <2>1, OneLine DEF ReadLine, Content, NextLine, ReaderTypeOK, Texts
      <3>2. Append(lines, Head(input)) # <<>>
        BY <3>1, AppendProperties
      <3> QED BY <2>1, <3>2, <1>1 DEF ReadLine, Content, NextLine, Prompt
    <2>2. CASE ~ReadLine
      BY <2>2, <1>1
      DEF ReaderTypeOK, ReaderNext, EndOfFile, LeaveOut, Collect, Refuse, File, FileLine, Prompt,
          NextLine, EndOfInput, SkipBlank, EndBlock, Content, Misindented, TakeBlock, Executed,
          Restart, reader
    <2> QED BY <2>1, <2>2
  <1>5. phase' \in {"run", "quit"} => lines' = <<>>
    BY DEF ReaderTypeOK, ReaderNext, EndOfFile, LeaveOut, Collect, Refuse, File, FileLine, Prompt,
           NextLine, EndOfInput, SkipBlank, EndBlock, Content, Misindented, ReadLine, TakeBlock,
           Executed, Restart, reader
  <1> QED BY <1>1, <1>2, <1>3, <1>4, <1>5 DEF ReaderTypeOK, Where

-----------------------------------------------------------------------------
(* Blocks at the prompt. *)

\* Behind a line a block is open if the line is one of a block, and opens one or
\* stands in one.
LEMMA OpenStep ==
  ASSUME NEW n \in Nat
  PROVE  OpenBehind(n + 1) <=>
           /\ IsAligned(text[n + 1]) /\ ~IsBlank(text[n + 1])
           /\ OpenBehind(n) \/ IsHeader(text[n + 1])
  <1>1. ASSUME OpenBehind(n + 1)
        PROVE  /\ IsAligned(text[n + 1]) /\ ~IsBlank(text[n + 1])
               /\ OpenBehind(n) \/ IsHeader(text[n + 1])
    <2>1. PICK h \in 1..n + 1 :
            /\ IsHeader(text[h])
            /\ \A k \in h..n + 1 : IsAligned(text[k]) /\ ~IsBlank(text[k])
      BY <1>1 DEF OpenBehind
    <2>2. n + 1 \in h..n + 1
      OBVIOUS
    <2>3. CASE h = n + 1
      BY <2>1, <2>2, <2>3
    <2>4. CASE h # n + 1
      <3>1. h \in 1..n /\ \A k \in h..n : k \in h..n + 1
        BY <2>4
      <3> QED BY <2>1, <2>2, <3>1 DEF OpenBehind
    <2> QED BY <2>3, <2>4
  <1>2. ASSUME IsAligned(text[n + 1]), ~IsBlank(text[n + 1]), IsHeader(text[n + 1])
        PROVE  OpenBehind(n + 1)
    <2>1. n + 1 \in 1..n + 1 /\ \A k \in n + 1 .. n + 1 : k = n + 1
      OBVIOUS
    <2> QED BY <1>2, <2>1 DEF OpenBehind
  <1>3. ASSUME IsAligned(text[n + 1]), ~IsBlank(text[n + 1]), OpenBehind(n)
        PROVE  OpenBehind(n + 1)
    <2>1. PICK h \in 1..n :
            /\ IsHeader(text[h])
            /\ \A k \in h..n : IsAligned(text[k]) /\ ~IsBlank(text[k])
      BY <1>3 DEF OpenBehind
    <2>2. h \in 1..n + 1 /\ \A k \in h..n + 1 : k \in h..n \/ k = n + 1
      OBVIOUS
    <2> QED BY <1>3, <2>1, <2>2 DEF OpenBehind
  <1> QED BY <1>1, <1>2, <1>3

LEMMA OpenSame ==
  ASSUME text' = text, NEW n
  PROVE  OpenBehind(n)' <=> OpenBehind(n)
  BY DEF OpenBehind

LEMMA NoneOpenBefore ==
  ~OpenBehind(0)
  BY DEF OpenBehind

\* What a line that is read at the prompt does to multiline.
LEMMA OpenRead ==
  ASSUME IInv, NextLine
  PROVE  /\ Position \in Nat /\ Position' = Position + 1 /\ Position + 1 \in 1..Len(text)
         /\ Head(input) = text[Position + 1]
         /\ multiline <=> OpenBehind(Position)
         /\ multiline <=> lines # <<>>
         /\ OpenBehind(Position)' <=>
              /\ IsAligned(Head(input)) /\ ~IsBlank(Head(input))
              /\ multiline \/ IsHeader(Head(input))
  <1>1. input # <<>> /\ input' = Tail(input) /\ text' = text /\ mode = "repl" /\ phase = "read"
    BY DEF NextLine, Prompt
  <1>2. ReaderTypeOK /\ PromptAsTyped
    BY DEF IInv
  <1>3. /\ Position + 1 \in 1..Len(text) /\ Position' = Position + 1
        /\ Head(input) = text[Position + 1]
    BY <1>1, <1>2, OneLine
  <1>4. Position \in Nat
    BY <1>2 DEF ReaderTypeOK
  <1>5. (multiline <=> OpenBehind(Position)) /\ (multiline <=> lines # <<>>)
    BY <1>1, <1>2 DEF PromptAsTyped
  <1>6. OpenBehind(Position + 1) <=>
           /\ IsAligned(text[Position + 1]) /\ ~IsBlank(text[Position + 1])
           /\ OpenBehind(Position) \/ IsHeader(text[Position + 1])
    BY <1>4, OpenStep
  <1>7. OpenBehind(Position)' <=> OpenBehind(Position + 1)
    BY <1>1, <1>3 DEF OpenBehind
  <1> QED BY <1>3, <1>4, <1>5, <1>6, <1>7

\* The block that has begun ends behind the line that was read last.
LEMMA Begun ==
  ASSUME IInv, NextLine, lines # <<>>
  PROVE  \E i \in 1..Position :
           /\ i + Len(lines) - 1 = Position
           /\ lines = SubSeq(text, i, Position)
           /\ ~OpenBehind(i - 1)
  <1>1. mode = "repl" /\ phase = "read"
    BY DEF NextLine, Prompt
  <1>2. PICK i \in 1..Position : BlockIs(i, i + Len(lines) - 1)
    BY <1>1 DEF IInv, PromptAsTyped
  <1> QED BY <1>1, <1>2 DEF BlockIs

LEMMA EndBlockStep ==
  ASSUME IInv, EndBlock
  PROVE  PromptAsTyped' /\ Closed'
  <1>1. NextLine /\ IsBlank(Head(input)) /\ lines # <<>> /\ multiline
        /\ phase' = "parse" /\ lines' = lines /\ text' = text
    BY DEF EndBlock, NextLine, Prompt
  <1>2. /\ Position \in Nat /\ Position' = Position + 1
        /\ Head(input) = text[Position + 1]
        /\ OpenBehind(Position)
        /\ ~OpenBehind(Position)'
    BY <1>1, OpenRead
  <1>3. PICK i \in 1..Position :
          /\ i + Len(lines) - 1 = Position
          /\ lines = SubSeq(text, i, Position)
          /\ ~OpenBehind(i - 1)
    BY <1>1, Begun
  <1>4. BlockIs(i, i + Len(lines) - 1)'
    <2>1. (i + Len(lines) - 1)' = Position
      BY <1>1, <1>3
    <2>2. lines' = SubSeq(text', i, Position)
      BY <1>1, <1>3
    <2>3. ~OpenBehind(i - 1)'
      BY <1>1, <1>3, OpenSame
    <2>4. Position + 1 = Position' /\ IsBlank(text'[Position + 1])
      BY <1>1, <1>2
    <2> QED BY <1>1, <2>1, <2>2, <2>3, <2>4, <1>2 DEF BlockIs, OpenBehind
  <1>5. i \in 1..Position'
    BY <1>2
  <1> QED BY <1>1, <1>2, <1>4, <1>5 DEF PromptAsTyped, Closed

\* What leaves no line of a block, at the prompt.
LEMMA NoLinesStep ==
  ASSUME IInv, NextLine, lines' = <<>>, ~multiline', phase' = "read",
         IsBlank(Head(input)) \/ ~IsAligned(Head(input))
  PROVE  PromptAsTyped' /\ Closed'
  <1>1. ~OpenBehind(Position)'
    BY OpenRead
  <1> QED BY <1>1 DEF PromptAsTyped, Closed

LEMMA SkipBlankStep ==
  ASSUME IInv, SkipBlank
  PROVE  PromptAsTyped' /\ Closed'
  <1>1. NextLine /\ IsBlank(Head(input)) /\ lines' = <<>> /\ multiline' = multiline /\ phase' = "read"
    BY DEF SkipBlank, NextLine, Prompt
  <1>2. ~multiline'
    BY <1>1 DEF SkipBlank, IInv, ReaderTypeOK
  <1> QED BY <1>1, <1>2, NoLinesStep

LEMMA MisindentedStep ==
  ASSUME IInv, Misindented
  PROVE  PromptAsTyped' /\ Closed'
  <1>1. /\ NextLine /\ ~IsAligned(Head(input)) /\ lines' = <<>> /\ ~multiline' /\ phase' = "read"
    BY DEF Misindented, Content, NextLine, Prompt
  <1> QED BY <1>1, NoLinesStep

LEMMA OfOne ==
  ASSUME NEW S, NEW s \in Seq(S), NEW q \in 1..Len(s)
  PROVE  SubSeq(s, q, q) = <<s[q]>>
  <1>1. q \in q..Len(s)
    OBVIOUS
  <1>2. SubSeq(s, q, q) = <<s[q]>> \o SubSeq(s, q + 1, q)
    BY <1>1, SubSeqRecursiveFirst
  <1>3. SubSeq(s, q + 1, q) = <<>>
    BY SubSeqEmpty
  <1>4. <<s[q]>> \in Seq(S)
    OBVIOUS
  <1> QED BY <1>2, <1>3, <1>4, ConcatEmptySeq

LEMMA ReadLineStep ==
  ASSUME IInv, ReadLine
  PROVE  PromptAsTyped' /\ Closed'
  <1> DEFINE l == Head(input)
             p == Position
  <1>1. /\ NextLine /\ IsAligned(l) /\ lines' = Append(lines, l)
        /\ multiline' = (multiline \/ IsHeader(l))
        /\ phase' = IF multiline' THEN "read" ELSE "parse"
        /\ text' = text
    BY DEF ReadLine, Content, NextLine, Prompt
  <1>2. /\ p \in Nat /\ Position' = p + 1 /\ p + 1 \in 1..Len(text)
        /\ l = text[p + 1]
        /\ multiline <=> OpenBehind(p)
        /\ multiline <=> lines # <<>>
        /\ OpenBehind(Position)' <=> ~IsBlank(l) /\ (multiline \/ IsHeader(l))
    BY <1>1, OpenRead
  <1>3. ~IsBlank(l)
    BY <1>2 DEF ReadLine, Content
  <1>4. OpenBehind(Position)' <=> multiline'
    BY <1>1, <1>2, <1>3
  <1>5. text \in Seq(AnyLine) /\ lines \in Seq(AnyLine) /\ Len(lines) \in Nat
    BY DEF IInv, ReaderTypeOK, Texts
  <1>6. l \in AnyLine
    BY <1>2, <1>5
  <1>7. Append(lines, l) # <<>> /\ Len(Append(lines, l)) = Len(lines) + 1
    BY <1>5, <1>6, AppendProperties
  <1> HIDE DEF l, p
  <1>8. \E i \in 1..p + 1 :
          /\ i + Len(lines') - 1 = p + 1
          /\ lines' = SubSeq(text, i, p + 1)
          /\ ~OpenBehind(i - 1)
          /\ lines = <<>> => i = p + 1
    <2>1. CASE lines = <<>>
      <3>1. SubSeq(text, p + 1, p + 1) = <<text[p + 1]>>
        <4> DEFINE q == p + 1
        <4>1. q \in 1..Len(text)
          BY <1>2
        <4> HIDE DEF q
        <4>2. SubSeq(text, q, q) = <<text[q]>>
          BY <1>5, <4>1, OfOne
        <4> QED BY <4>2 DEF q
      <3>2. lines' = <<text[p + 1]>>
        BY <1>1, <1>2, <2>1
      <3>3. Len(lines') = 1
        BY <3>2
      <3>4. p + 1 \in 1..p + 1 /\ (p + 1) - 1 = p
        BY <1>2
      <3>5. ~OpenBehind(p)
        BY <1>2, <2>1
      <3> DEFINE Fits(i) == /\ i + Len(lines') - 1 = p + 1
                            /\ lines' = SubSeq(text, i, p + 1)
                            /\ ~OpenBehind(i - 1)
                            /\ lines = <<>> => i = p + 1
      <3>6. p + 1 + Len(lines') - 1 = p + 1
        BY <1>2, <3>3
      <3>7. Fits(p + 1)
        BY <3>1, <3>2, <3>4, <3>5, <3>6
      <3> HIDE DEF Fits
      <3>8. \E i \in 1..p + 1 : Fits(i)
        BY <3>4, <3>7
      <3> QED BY <3>8 DEF Fits
    <2>2. CASE lines # <<>>
      <3>1. PICK i \in 1..p : i + Len(lines) - 1 = p /\ lines = SubSeq(text, i, p) /\ ~OpenBehind(i - 1)
        BY <1>1, <2>2, Begun DEF p
      <3>2. SubSeq(text, i, p + 1) = SubSeq(text, i, p) \o <<text[p + 1]>>
        <4> DEFINE q == p + 1
        <4>1. i \in 1..Len(text) /\ q \in i..Len(text)
          BY <1>2, <1>5, <3>1
        <4> HIDE DEF q
        <4>2. SubSeq(text, i, q) = SubSeq(text, i, q - 1) \o <<text[q]>>
          BY <1>5, <4>1, SubSeqRecursiveSecond
        <4>3. q = p + 1 /\ q - 1 = p
          BY <1>2 DEF q
        <4> QED BY <4>2, <4>3
      <3>4. lines' = lines \o <<l>>
        BY <1>1, <1>5, <1>6 DEF l
      <3>5. i \in 1..p + 1
        BY <1>2
      <3>6. i + Len(lines') - 1 = p + 1
        <4>1. Len(lines') = Len(lines) + 1
          BY <1>1, <1>7
        <4> QED BY <1>2, <1>5, <3>1, <4>1
      <3> QED BY <1>2, <2>2, <3>1, <3>2, <3>4, <3>5, <3>6
    <2> QED BY <2>1, <2>2
  <1>9. PICK i \in 1..p + 1 :
          /\ i + Len(lines') - 1 = p + 1
          /\ lines' = SubSeq(text, i, p + 1)
          /\ ~OpenBehind(i - 1)
          /\ lines = <<>> => i = p + 1
    BY <1>8
  <1>10. BlockIs(i, i + Len(lines) - 1)'
    <2>1. (i + Len(lines) - 1)' = Position'
      BY <1>2, <1>9
    <2>2. lines' = SubSeq(text', i, Position')
      BY <1>1, <1>2, <1>9
    <2>3. ~OpenBehind(i - 1)'
      BY <1>1, <1>9, OpenSame
    <2>4. ~multiline' => lines = <<>> /\ i = Position'
      BY <1>1, <1>2, <1>9
    <2>5. phase' = "read" => multiline'
      BY <1>1
    <2>6. phase' = "parse" => ~multiline'
      BY <1>1
    <2> QED BY <1>4, <2>1, <2>2, <2>3, <2>4, <2>5, <2>6 DEF BlockIs, OpenBehind
  <1>11. /\ lines' # <<>> /\ i \in 1..Position'
         /\ phase' = "read" => (multiline' <=> lines' # <<>>) /\ (multiline' <=> OpenBehind(Position)')
    BY <1>1, <1>2, <1>4, <1>7
  <1>12. Closed'
    BY <1>1, <1>4 DEF Closed
  <1> QED BY <1>10, <1>11, <1>12 DEF PromptAsTyped

LEMMA HandsOverStep ==
  ASSUME IInv, [ReaderNext]_reader
  PROVE  HandsOver
  <1>1. SUFFICES ASSUME mode = "repl", phase = "read", input' # input
                 PROVE  phase' = "parse" <=> Complete(Position + 1)
    BY DEF HandsOver
  <1>2. NextLine /\ (SkipBlank \/ EndBlock \/ Misindented \/ ReadLine)
    BY <1>1
    DEF ReaderNext, EndOfFile, LeaveOut, Collect, Refuse, File, FileLine, EndOfInput, SkipBlank,
        EndBlock, Content, Misindented, ReadLine, TakeBlock, Executed, Restart, reader
  <1> DEFINE l == text[Position + 1]
  <1>3. /\ Head(input) = l
        /\ multiline <=> OpenBehind(Position)
        /\ multiline <=> lines # <<>>
    BY <1>2, OpenRead
  <1>4. (Position + 1) - 1 = Position
    BY <1>2, OpenRead
  <1>5. Complete(Position + 1) <=>
          IF multiline THEN IsBlank(l) ELSE ~IsBlank(l) /\ IsAligned(l) /\ ~IsHeader(l)
    BY <1>3, <1>4 DEF Complete
  <1> HIDE DEF l
  <1>6. phase' = "parse" <=>
          IF multiline THEN IsBlank(l) ELSE ~IsBlank(l) /\ IsAligned(l) /\ ~IsHeader(l)
    <2>1. CASE SkipBlank
      BY <1>1, <1>3, <2>1 DEF SkipBlank
    <2>2. CASE EndBlock
      BY <1>3, <2>2 DEF EndBlock
    <2>3. CASE Misindented
      BY <1>1, <1>3, <2>3 DEF Misindented, Content
    <2>4. CASE ReadLine
      BY <1>3, <2>4 DEF ReadLine, Content
    <2> QED BY <1>2, <2>1, <2>2, <2>3, <2>4
  <1> QED BY <1>5, <1>6

LEMMA RestartStep ==
  ASSUME IInv, Restart
  PROVE  Position' = 0
  <1>1. text \in Seq(AnyLine) /\ text' = text /\ input' = text
    BY DEF IInv, ReaderTypeOK, Texts, Restart
  <1>2. Len(text) \in Nat
    BY <1>1
  <1> QED BY <1>1, <1>2 DEF Position

LEMMA BlockStep ==
  ASSUME IInv, [ReaderNext]_reader
  PROVE  PromptAsTyped' /\ Closed'
  <1>1. mode' = mode /\ text' = text
    BY WhereStep DEF IInv
  <1>2. CASE mode # "repl"
    BY <1>1, <1>2 DEF PromptAsTyped, Closed
  <1>3. CASE mode = "repl" /\ EndOfInput
    BY <1>3 DEF EndOfInput, PromptAsTyped, Closed
  <1>4. CASE mode = "repl" /\ \E then \in {"run", "quit"} : TakeBlock(then)
    <2>1. /\ phase = "parse" /\ phase' \in {"run", "quit"} /\ lines' = <<>>
          /\ UNCHANGED <<text, input>>
      BY <1>4 DEF TakeBlock
    <2>2. ~OpenBehind(Position)
      BY <1>4, <2>1 DEF IInv, Closed
    <2>3. ~OpenBehind(Position)'
      BY <2>1, <2>2, SameLine DEF OpenBehind
    <2> QED BY <2>1, <2>3 DEF PromptAsTyped, Closed
  <1>5. CASE mode = "repl" /\ \E threw \in BOOLEAN : Executed(threw)
    <2>1. /\ phase = "run" /\ phase' \in {"read", "quit"}
          /\ UNCHANGED <<text, input, lines, multiline>>
      BY <1>5 DEF Executed
    <2>2. ~OpenBehind(Position) /\ lines = <<>> /\ ~multiline
      BY <1>5, <2>1 DEF IInv, Closed, ReaderTypeOK
    <2>3. ~OpenBehind(Position)'
      BY <2>1, <2>2, SameLine DEF OpenBehind
    <2> QED BY <2>1, <2>2, <2>3 DEF PromptAsTyped, Closed
  <1>6. CASE mode = "repl" /\ Restart
    <2>1. phase' = "read" /\ lines' = <<>> /\ ~multiline'
      BY <1>6 DEF Restart
    <2>2. ~OpenBehind(Position)'
      BY <1>6, RestartStep DEF OpenBehind
    <2> QED BY <2>1, <2>2 DEF PromptAsTyped, Closed
  <1>7. CASE UNCHANGED reader
    BY <1>7 DEF reader, IInv, PromptAsTyped, Closed, BlockIs, OpenBehind, Position
  <1> QED
    BY <1>2, <1>3, <1>4, <1>5, <1>6, <1>7, EndBlockStep, SkipBlankStep, MisindentedStep,
       ReadLineStep
    DEF ReaderNext, EndOfFile, LeaveOut, Collect, Refuse, File, FileLine

-----------------------------------------------------------------------------
(* The lines of a file. *)

LEMMA FilledFirst == Filled(0) = 0
  <1>1. {m \in 1..0 : ~IsBlank(text[m])} = {}
    OBVIOUS
  <1> QED BY <1>1, FS_EmptySet DEF Filled

LEMMA FilledStep ==
  ASSUME NEW n \in Nat
  PROVE  /\ Filled(n) \in Nat
         /\ Filled(n + 1) = IF IsBlank(text[n + 1]) THEN Filled(n) ELSE Filled(n) + 1
  <1> DEFINE F(k) == {m \in 1..k : ~IsBlank(text[m])}
  <1>1. IsFiniteSet(F(n))
    <2>1. IsFiniteSet(1..n)
      BY FS_Interval
    <2> QED BY <2>1, FS_Subset
  <1>2. Cardinality(F(n)) \in Nat
    BY <1>1, FS_CardinalityType
  <1>3. CASE IsBlank(text[n + 1])
    <2>1. F(n + 1) = F(n)
      BY <1>3
    <2> QED BY <1>2, <1>3, <2>1 DEF Filled
  <1>4. CASE ~IsBlank(text[n + 1])
    <2>1. F(n + 1) = F(n) \cup {n + 1} /\ n + 1 \notin F(n)
      BY <1>4
    <2>2. Cardinality(F(n) \cup {n + 1}) = Cardinality(F(n)) + 1
      BY <1>1, <2>1, FS_AddElement
    <2> QED BY <1>2, <1>4, <2>1, <2>2 DEF Filled
  <1> QED BY <1>3, <1>4

\* The number of a line that is not blank is that of a line of the block.
LEMMA FilledGrows ==
  ASSUME NEW n \in Nat, NEW k \in 1..n, ~IsBlank(text[k])
  PROVE  Filled(k) \in 1..Filled(n)
  <1> DEFINE F(j) == {m \in 1..j : ~IsBlank(text[m])}
  <1>1. IsFiniteSet(1..n) /\ F(k) \subseteq F(n) /\ F(n) \subseteq 1..n /\ k \in F(k)
    BY FS_Interval
  <1>2. IsFiniteSet(F(n)) /\ IsFiniteSet(F(k)) /\ Cardinality(F(k)) <= Cardinality(F(n))
    BY <1>1, FS_Subset
  <1>3. Cardinality(F(k)) \in Nat /\ Cardinality(F(n)) \in Nat
    BY <1>2, FS_CardinalityType
  <1>4. Cardinality(F(k)) # 0
    BY <1>1, <1>2, FS_EmptySet
  <1> QED BY <1>2, <1>3, <1>4 DEF Filled

LEMMA FileStep ==
  ASSUME IInv, [ReaderNext]_reader
  PROVE  FileAsWritten'
  <1>1. mode' = mode /\ text' = text
    BY WhereStep DEF IInv
  <1>2. SUFFICES ASSUME mode = "script", phase' \in {"read", "parse"}
                 PROVE  FileAsWritten'
    BY <1>1 DEF FileAsWritten
  <1>3. /\ ReaderTypeOK /\ text \in Seq(AnyLine) /\ lines \in Seq(AnyLine)
        /\ Len(lines) \in Nat /\ Len(text) \in Nat /\ Position \in Nat
    BY DEF IInv, ReaderTypeOK, Texts
  <1>4. phase \in {"read", "parse"} =>
          /\ phase = "parse" => input = <<>>
          /\ Len(lines) = Filled(Position)
          /\ \A n \in 1..Position : ~IsBlank(text[n]) => lines[Filled(n)] = text[n]
    BY <1>2 DEF IInv, FileAsWritten
  <1>5. CASE EndOfFile \/ UNCHANGED reader
    <2>1. /\ phase \in {"read", "parse"}
          /\ phase' = "parse" => input' = <<>>
          /\ UNCHANGED <<text, input, lines>>
      BY <1>2, <1>4, <1>5 DEF EndOfFile, File, reader
    <2>2. Position' = Position
      BY <2>1, SameLine
    <2>3. Filled(Position)' = Filled(Position)
      BY <2>1, <2>2 DEF Filled
    <2>4. \A n \in 1..Position' : Filled(n)' = Filled(n)
      BY <2>1 DEF Filled
    <2>5. Len(lines') = Filled(Position)'
      BY <1>4, <2>1, <2>3
    <2>6. \A n \in 1..Position' : ~IsBlank(text'[n]) => lines'[Filled(n)'] = text'[n]
      BY <1>4, <2>1, <2>2, <2>4
    <2> QED BY <2>1, <2>5, <2>6 DEF FileAsWritten
  <1>6. CASE Restart
    <2>1. Position' = 0 /\ phase' = "read" /\ lines' = <<>>
      BY <1>6, RestartStep DEF Restart
    <2>2. Filled(Position)' = 0
      <3>1. {m \in 1..0 : ~IsBlank(text'[m])} = {}
        OBVIOUS
      <3> QED BY <2>1, <3>1, FS_EmptySet DEF Filled
    <2>3. Len(lines') = 0
      BY <2>1
    <2>4. 1..Position' = {}
      BY <2>1
    <2> QED BY <2>1, <2>2, <2>3, <2>4 DEF FileAsWritten
  <1>7. CASE FileLine /\ (LeaveOut \/ Collect)
    <2> DEFINE p == Position
               l == Head(input)
    <2>1. phase = "read" /\ phase' = "read" /\ input # <<>> /\ input' = Tail(input)
      BY <1>7 DEF FileLine, File, LeaveOut, Collect
    <2>2. Position' = p + 1 /\ l = text[p + 1] /\ text[p + 1] \in AnyLine
      BY <1>1, <1>3, <2>1, OneLine
    <2>3. p \in Nat
      BY <1>3
    <2> HIDE DEF p, l
    <2>4. /\ Len(lines) = Filled(p)
          /\ \A n \in 1..p : ~IsBlank(text[n]) => lines[Filled(n)] = text[n]
      BY <1>4, <2>1 DEF p
    <2>5. /\ Filled(p) \in Nat
          /\ Filled(p + 1) = IF IsBlank(text[p + 1]) THEN Filled(p) ELSE Filled(p) + 1
      BY <2>3, FilledStep
    <2>6. \A n \in 1..p + 1 : n \in 1..p \/ n = p + 1
      BY <2>3
    <2>7. /\ Len(lines') = Filled(p + 1)
          /\ \A n \in 1..p + 1 : ~IsBlank(text[n]) => lines'[Filled(n)] = text[n]
      <3>1. CASE IsBlank(l)
        <4>1. lines' = lines
          BY <1>7, <3>1 DEF LeaveOut, Collect, l
        <4> QED BY <2>2, <2>4, <2>5, <2>6, <3>1, <4>1
      <3>2. CASE ~IsBlank(l)
        <4>1. lines' = Append(lines, l)
          BY <1>7, <3>2 DEF LeaveOut, Collect, l
        <4>2. /\ Len(Append(lines, l)) = Len(lines) + 1
              /\ \A i \in 1..Len(lines) : Append(lines, l)[i] = lines[i]
              /\ Append(lines, l)[Len(lines) + 1] = l
          BY <1>3, <2>2, AppendProperties
        <4>3. \A n \in 1..p : ~IsBlank(text[n]) => Filled(n) \in 1..Len(lines)
          BY <2>3, <2>4, FilledGrows
        <4>4. \A n \in 1..p : ~IsBlank(text[n]) => lines'[Filled(n)] = text[n]
          BY <2>4, <4>1, <4>2, <4>3
        <4>5. Filled(p + 1) = Len(lines) + 1
          BY <2>2, <2>4, <2>5, <3>2
        <4>6. lines'[Filled(p + 1)] = text[p + 1]
          BY <2>2, <4>1, <4>2, <4>5
        <4>7. Len(lines') = Filled(p + 1)
          BY <4>1, <4>2, <4>5
        <4> QED BY <2>6, <4>4, <4>6, <4>7
      <3> QED BY <3>1, <3>2
    <2>8. Len(lines') = Filled(Position)'
      BY <1>1, <2>2, <2>7 DEF Filled
    <2>9. ASSUME NEW n \in 1..Position', ~IsBlank(text'[n])
          PROVE  lines'[Filled(n)'] = text'[n]
      <3>1. Filled(n)' = Filled(n)
        BY <1>1 DEF Filled
      <3> QED BY <1>1, <2>2, <2>7, <2>9, <3>1
    <2> QED BY <2>1, <2>8, <2>9 DEF FileAsWritten
  <1>8. CASE \E threw \in BOOLEAN : Executed(threw)
    BY <1>2, <1>8 DEF Executed
  <1> QED
    BY <1>2, <1>5, <1>6, <1>7, <1>8
    DEF ReaderNext, LeaveOut, Collect, Refuse, EndOfInput, SkipBlank, EndBlock, Content,
        Misindented, ReadLine, NextLine, Prompt, TakeBlock

-----------------------------------------------------------------------------
(* The theorems. *)

LEMMA Initially ==
  ASSUME OpenText
  PROVE  IInv
  <1>1. text \in Seq(AnyLine) /\ input = text /\ lines = <<>> /\ ~multiline /\ phase = "read"
        /\ mode \in {"script", "repl"}
    BY DEF OpenText, Texts
  <1>2. Len(text) \in Nat
    BY <1>1
  <1>3. Position = 0
    BY <1>1, <1>2 DEF Position
  <1>4. SubSeq(text, 1, Len(text)) = text
    BY <1>1, SubSeqFull
  <1>5. <<>> \in Seq(AnyLine) /\ DOMAIN <<>> = {} /\ Len(<<>>) = 0
    BY EmptySeq
  <1>6. ReaderTypeOK
    <2>1. Position + 1 = 1 /\ Position \in 0..Len(text)
      BY <1>2, <1>3
    <2>2. multiline \in BOOLEAN
      BY DEF OpenText
    <2>3. input = SubSeq(text, Position + 1, Len(text))
      BY <1>1, <1>4, <2>1
    <2> QED BY <1>1, <1>5, <2>1, <2>2, <2>3 DEF ReaderTypeOK, Texts
  <1>7. PromptAsTyped /\ Closed
    BY <1>1, <1>3, NoneOpenBefore DEF PromptAsTyped, Closed
  <1>8. FileAsWritten
    <2>1. 1..0 = {}
      OBVIOUS
    <2> QED BY <1>1, <1>3, <1>5, <2>1, FilledFirst DEF FileAsWritten
  <1> QED BY <1>6, <1>7, <1>8 DEF IInv

\* The invariant is inductive, whatever the text and whatever main does with a
\* block.
THEOREM Invariant == Reading => []IInv
  <1>1. OpenText => IInv
    BY Initially
  <1>2. IInv /\ [ReaderNext]_reader => IInv'
    BY TypeStep, BlockStep, FileStep DEF IInv
  <1> QED BY <1>1, <1>2, PTL DEF Reading

\* The parser is handed the lines as they were typed, at the prompt each block
\* when it is complete, and all of a file or none (interpreter.cc:671-727).
THEOREM LinesAreAsTyped == Reading => LinesAsTyped
  <1>1. IInv => ReaderTypeOK /\ PromptAsTyped /\ FileAsWritten
    BY DEF IInv
  <1>2. IInv /\ [ReaderNext]_reader => [HandsOver]_reader
    BY HandsOverStep
  <1> QED BY <1>1, <1>2, Invariant, PTL DEF Reading, LinesAsTyped
=============================================================================
