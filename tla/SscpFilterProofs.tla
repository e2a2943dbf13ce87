-------------------------- MODULE SscpFilterProofs --------------------------
(***************************************************************************)
(* SscpFilter for every size of the buffer, every length of the names, and *)
(* payloads, chunks and input of any length.                               *)
(***************************************************************************)
EXTENDS SscpFilter, TLAPS

\* TypeOK in two parts, since no one backend handles both well.
Flags ==
  /\ sscp_enable \in BOOLEAN /\ sscp_processing \in BOOLEAN
  /\ separator \in BOOLEAN /\ filtering \in BOOLEAN /\ garbled \in BOOLEAN
  /\ sscp_state \in States
Numbers ==
  /\ length \in Nat /\ collect \in 0..4 /\ width \in {0, 1, 2, 4}
  /\ remaining \in Int /\ captured \in Nat /\ asked \in Nat
  /\ len \in Nat /\ left \in Int /\ window \in Nat
  /\ reach \in Nat /\ sent \in Nat /\ oob \in Nat /\ eaten \in Nat /\ paid \in Nat

LEMMA TypeParts == TypeOK <=> Flags /\ Numbers
BY Zenon DEF TypeOK, Flags, Numbers

LEMMA InitInv == Init => IInv
<1> SUFFICES ASSUME Init PROVE IInv
  OBVIOUS
<1> USE FilterAssumption DEF Init, States, Slack
<1>1. Flags
  BY DEF Flags
<1>2. Numbers /\ BufferNotOverrun /\ BufferInBounds
  BY DEF Numbers, BufferNotOverrun, BufferInBounds
<1>3. CommandsDoNotOverlap /\ PayloadWithinBuffer
  BY DEF Numbers, CommandsDoNotOverlap, PayloadWithinBuffer
<1>4. ChunkDone /\ ConservedUnlessGarbled
  BY DEF Numbers, ChunkDone, ConservedUnlessGarbled, Conserved
<1>5. QED
  BY <1>1, <1>2, <1>3, <1>4, TypeParts, Zenon DEF IInv

LEMMA StepInv ==
  ASSUME IInv, [Next]_vars
  PROVE  IInv'
<1> USE FilterAssumption DEF Iterate, parser, payload, history, States, Bytes, IntTokens,
        Width, Digits, Slack, SeparatorFits, Inserted, Higher, NoRoom, sscp_process
<1> SUFFICES Flags' /\ Numbers' /\ BufferNotOverrun' /\ BufferInBounds' /\ CommandsDoNotOverlap'
             /\ PayloadWithinBuffer' /\ ChunkDone' /\ ConservedUnlessGarbled'
  BY TypeParts, PTL DEF IInv
<1> DEFINE Goal == Flags' /\ Numbers' /\ BufferNotOverrun' /\ BufferInBounds' /\ CommandsDoNotOverlap'
             /\ PayloadWithinBuffer' /\ ChunkDone' /\ ConservedUnlessGarbled'
<1>0. Flags /\ Numbers /\ BufferNotOverrun /\ BufferInBounds /\ CommandsDoNotOverlap
      /\ PayloadWithinBuffer /\ ChunkDone /\ ConservedUnlessGarbled
  BY TypeParts, Zenon DEF IInv
<1>1. ASSUME NEW n \in 1..ChunkMax, Recv(n) PROVE Goal
  <2>1. Flags'
    BY <1>0, <1>1 DEF Flags, Recv
  <2>2. Numbers' /\ BufferNotOverrun' /\ BufferInBounds'
    BY <1>0, <1>1 DEF Numbers, BufferNotOverrun, BufferInBounds, Recv
  <2>3. CommandsDoNotOverlap' /\ PayloadWithinBuffer'
    BY <1>0, <1>1 DEF Numbers, CommandsDoNotOverlap, PayloadWithinBuffer,
       Recv
  <2>4. ChunkDone' /\ ConservedUnlessGarbled'
    BY <1>0, <1>1 DEF Numbers, ChunkDone, ConservedUnlessGarbled, Conserved, Recv
  <2>5. QED
    BY <2>1, <2>2, <2>3, <2>4, Zenon
<1>2. CASE EndChunk
  <2>1. Flags'
    BY <1>0, <1>2 DEF Flags, EndChunk
  <2>2. Numbers' /\ BufferNotOverrun' /\ BufferInBounds'
    BY <1>0, <1>2 DEF Numbers, BufferNotOverrun, BufferInBounds, EndChunk
  <2>3. CommandsDoNotOverlap' /\ PayloadWithinBuffer'
    BY <1>0, <1>2 DEF Numbers, CommandsDoNotOverlap, PayloadWithinBuffer,
       EndChunk
  <2>4. ChunkDone' /\ ConservedUnlessGarbled'
    BY <1>0, <1>2 DEF Numbers, ChunkDone, ConservedUnlessGarbled, Conserved, EndChunk
  <2>5. QED
    BY <2>1, <2>2, <2>3, <2>4, Zenon
<1>3. CASE IdleStart
  <2>1. Flags'
    BY <1>0, <1>3 DEF Flags, IdleStart
  <2>2. Numbers' /\ BufferNotOverrun' /\ BufferInBounds'
    BY <1>0, <1>3 DEF Numbers, BufferNotOverrun, BufferInBounds, IdleStart
  <2>3. CommandsDoNotOverlap' /\ PayloadWithinBuffer'
    BY <1>0, <1>3 DEF Numbers, CommandsDoNotOverlap, PayloadWithinBuffer,
       IdleStart
  <2>4. ChunkDone' /\ ConservedUnlessGarbled'
    BY <1>0, <1>3 DEF Numbers, ChunkDone, ConservedUnlessGarbled, Conserved, IdleStart
  <2>5. QED
    BY <2>1, <2>2, <2>3, <2>4, Zenon
<1>4. ASSUME NEW b \in Bytes, IdleOther(b) PROVE Goal
  <2>1. Flags'
    BY <1>0, <1>4 DEF Flags, IdleOther
  <2>2. Numbers' /\ BufferNotOverrun' /\ BufferInBounds'
    BY <1>0, <1>4 DEF Numbers, BufferNotOverrun, BufferInBounds, IdleOther
  <2>3. CommandsDoNotOverlap' /\ PayloadWithinBuffer'
    BY <1>0, <1>4 DEF Numbers, CommandsDoNotOverlap, PayloadWithinBuffer,
       IdleOther
  <2>4. ChunkDone' /\ ConservedUnlessGarbled'
    BY <1>0, <1>4 DEF Numbers, ChunkDone, ConservedUnlessGarbled, Conserved, IdleOther
  <2>5. QED
    BY <2>1, <2>2, <2>3, <2>4, Zenon
<1>5. CASE EndCommand
  <2>1. Flags'
    BY <1>0, <1>5 DEF Flags, EndCommand
  <2>2. Numbers' /\ BufferNotOverrun' /\ BufferInBounds'
    BY <1>0, <1>5 DEF Numbers, BufferNotOverrun, BufferInBounds, EndCommand
  <2>3. CommandsDoNotOverlap' /\ PayloadWithinBuffer'
    BY <1>0, <1>5 DEF Numbers, CommandsDoNotOverlap, PayloadWithinBuffer,
       EndCommand
  <2>4. ChunkDone' /\ ConservedUnlessGarbled'
    BY <1>0, <1>5 DEF Numbers, ChunkDone, ConservedUnlessGarbled, Conserved, EndCommand
  <2>5. QED
    BY <2>1, <2>2, <2>3, <2>4, Zenon
<1>6. ASSUME NEW b \in Bytes, IntToken(b) PROVE Goal
  <2>1. Flags'
    BY <1>0, <1>6 DEF Flags, IntToken
  <2>2. Numbers' /\ BufferNotOverrun' /\ BufferInBounds'
    BY <1>0, <1>6 DEF Numbers, BufferNotOverrun, BufferInBounds, IntToken
  <2>3. CommandsDoNotOverlap' /\ PayloadWithinBuffer'
    BY <1>0, <1>6 DEF Numbers, CommandsDoNotOverlap, PayloadWithinBuffer,
       IntToken
  <2>4. ChunkDone' /\ ConservedUnlessGarbled'
    BY <1>0, <1>6 DEF Numbers, ChunkDone, ConservedUnlessGarbled, Conserved, IntToken
  <2>5. QED
    BY <2>1, <2>2, <2>3, <2>4, Zenon
<1>7. ASSUME NEW k \in NameLens, NameToken(k) PROVE Goal
  <2>1. Flags'
    BY <1>0, <1>7 DEF Flags, NameToken
  <2>2. Numbers' /\ BufferNotOverrun' /\ BufferInBounds'
    BY <1>0, <1>7 DEF Numbers, BufferNotOverrun, BufferInBounds, NameToken
  <2>3. CommandsDoNotOverlap' /\ PayloadWithinBuffer'
    BY <1>0, <1>7 DEF Numbers, CommandsDoNotOverlap, PayloadWithinBuffer,
       NameToken
  <2>4. ChunkDone' /\ ConservedUnlessGarbled'
    BY <1>0, <1>7 DEF Numbers, ChunkDone, ConservedUnlessGarbled, Conserved, NameToken
  <2>5. QED
    BY <2>1, <2>2, <2>3, <2>4, Zenon
<1>8. ASSUME NEW k \in NameLens, NameTooLong(k) PROVE Goal
  <2>1. Flags'
    BY <1>0, <1>8 DEF Flags, NameTooLong
  <2>2. Numbers' /\ BufferNotOverrun' /\ BufferInBounds'
    BY <1>0, <1>8 DEF Numbers, BufferNotOverrun, BufferInBounds, NameTooLong
  <2>3. CommandsDoNotOverlap' /\ PayloadWithinBuffer'
    BY <1>0, <1>8 DEF Numbers, CommandsDoNotOverlap, PayloadWithinBuffer,
       NameTooLong
  <2>4. ChunkDone' /\ ConservedUnlessGarbled'
    BY <1>0, <1>8 DEF Numbers, ChunkDone, ConservedUnlessGarbled, Conserved, NameTooLong
  <2>5. QED
    BY <2>1, <2>2, <2>3, <2>4, Zenon
<1>9. ASSUME NEW b \in Bytes, Char(b) PROVE Goal
  <2>1. Flags'
    BY <1>0, <1>9 DEF Flags, Char
  <2>2. Numbers' /\ BufferNotOverrun' /\ BufferInBounds'
    BY <1>0, <1>9 DEF Numbers, BufferNotOverrun, BufferInBounds, Char
  <2>3. CommandsDoNotOverlap' /\ PayloadWithinBuffer'
    BY <1>0, <1>9 DEF Numbers, CommandsDoNotOverlap, PayloadWithinBuffer,
       Char
  <2>4. ChunkDone' /\ ConservedUnlessGarbled'
    BY <1>0, <1>9 DEF Numbers, ChunkDone, ConservedUnlessGarbled, Conserved, Char
  <2>5. QED
    BY <2>1, <2>2, <2>3, <2>4, Zenon
<1>10. ASSUME NEW b \in Bytes, CharTooLong(b) PROVE Goal
  <2>1. Flags'
    BY <1>0, <1>10 DEF Flags, CharTooLong
  <2>2. Numbers' /\ BufferNotOverrun' /\ BufferInBounds'
    BY <1>0, <1>10 DEF Numbers, BufferNotOverrun, BufferInBounds, CharTooLong
  <2>3. CommandsDoNotOverlap' /\ PayloadWithinBuffer'
    BY <1>0, <1>10 DEF Numbers, CommandsDoNotOverlap, PayloadWithinBuffer,
       CharTooLong
  <2>4. ChunkDone' /\ ConservedUnlessGarbled'
    BY <1>0, <1>10 DEF Numbers, ChunkDone, ConservedUnlessGarbled, Conserved, CharTooLong
  <2>5. QED
    BY <2>1, <2>2, <2>3, <2>4, Zenon
<1>11. ASSUME NEW b \in Bytes, NoRoomEnd(b) PROVE Goal
  <2>1. Flags'
    BY <1>0, <1>11 DEF Flags, NoRoomEnd
  <2>2. Numbers' /\ BufferNotOverrun' /\ BufferInBounds'
    BY <1>0, <1>11 DEF Numbers, BufferNotOverrun, BufferInBounds, NoRoomEnd
  <2>3. CommandsDoNotOverlap' /\ PayloadWithinBuffer'
    BY <1>0, <1>11 DEF Numbers, CommandsDoNotOverlap, PayloadWithinBuffer,
       NoRoomEnd
  <2>4. ChunkDone' /\ ConservedUnlessGarbled'
    BY <1>0, <1>11 DEF Numbers, ChunkDone, ConservedUnlessGarbled, Conserved, NoRoomEnd
  <2>5. QED
    BY <2>1, <2>2, <2>3, <2>4, Zenon
<1>12. ASSUME NEW b \in Bytes, NEW c \in Bytes, NoRoomInt(b, c) PROVE Goal
  <2>1. Flags'
    BY <1>0, <1>12 DEF Flags, NoRoomInt
  <2>2. Numbers' /\ BufferNotOverrun' /\ BufferInBounds'
    BY <1>0, <1>12 DEF Numbers, BufferNotOverrun, BufferInBounds, NoRoomInt
  <2>3. CommandsDoNotOverlap' /\ PayloadWithinBuffer'
    BY <1>0, <1>12 DEF Numbers, CommandsDoNotOverlap, PayloadWithinBuffer,
       NoRoomInt
  <2>4. ChunkDone' /\ ConservedUnlessGarbled'
    BY <1>0, <1>12 DEF Numbers, ChunkDone, ConservedUnlessGarbled, Conserved, NoRoomInt
  <2>5. QED
    BY <2>1, <2>2, <2>3, <2>4, Zenon
<1>13. ASSUME NEW b \in Bytes, NoRoomName(b) PROVE Goal
  <2>1. Flags'
    BY <1>0, <1>13 DEF Flags, NoRoomName
  <2>2. Numbers' /\ BufferNotOverrun' /\ BufferInBounds'
    BY <1>0, <1>13 DEF Numbers, BufferNotOverrun, BufferInBounds, NoRoomName
  <2>3. CommandsDoNotOverlap' /\ PayloadWithinBuffer'
    BY <1>0, <1>13 DEF Numbers, CommandsDoNotOverlap, PayloadWithinBuffer,
       NoRoomName
  <2>4. ChunkDone' /\ ConservedUnlessGarbled'
    BY <1>0, <1>13 DEF Numbers, ChunkDone, ConservedUnlessGarbled, Conserved, NoRoomName
  <2>5. QED
    BY <2>1, <2>2, <2>3, <2>4, Zenon
<1>14. ASSUME NEW b \in Bytes, NoRoomChar(b) PROVE Goal
  <2>1. Flags'
    BY <1>0, <1>14 DEF Flags, NoRoomChar
  <2>2. Numbers' /\ BufferNotOverrun' /\ BufferInBounds'
    BY <1>0, <1>14 DEF Numbers, BufferNotOverrun, BufferInBounds, NoRoomChar
  <2>3. CommandsDoNotOverlap' /\ PayloadWithinBuffer'
    BY <1>0, <1>14 DEF Numbers, CommandsDoNotOverlap, PayloadWithinBuffer,
       NoRoomChar
  <2>4. ChunkDone' /\ ConservedUnlessGarbled'
    BY <1>0, <1>14 DEF Numbers, ChunkDone, ConservedUnlessGarbled, Conserved, NoRoomChar
  <2>5. QED
    BY <2>1, <2>2, <2>3, <2>4, Zenon
<1>15. CASE CollectByte
  <2>1. Flags'
    BY <1>0, <1>15 DEF Flags, CollectByte
  <2>2. Numbers' /\ BufferNotOverrun' /\ BufferInBounds'
    BY <1>0, <1>15 DEF Numbers, BufferNotOverrun, BufferInBounds, CollectByte
  <2>3. CommandsDoNotOverlap' /\ PayloadWithinBuffer'
    BY <1>0, <1>15 DEF Numbers, CommandsDoNotOverlap, PayloadWithinBuffer,
       CollectByte
  <2>4. ChunkDone' /\ ConservedUnlessGarbled'
    BY <1>0, <1>15 DEF Numbers, ChunkDone, ConservedUnlessGarbled, Conserved, CollectByte
  <2>5. QED
    BY <2>1, <2>2, <2>3, <2>4, Zenon
<1>16. ASSUME NEW end \in 0..(Max + Slack), CollectLast(end) PROVE Goal
  <2>1. Flags'
    BY <1>0, <1>16 DEF Flags, CollectLast
  <2>2. Numbers' /\ BufferNotOverrun' /\ BufferInBounds'
    BY <1>0, <1>16 DEF Numbers, BufferNotOverrun, BufferInBounds, CollectLast
  <2>3. CommandsDoNotOverlap' /\ PayloadWithinBuffer'
    BY <1>0, <1>16 DEF Numbers, CommandsDoNotOverlap, PayloadWithinBuffer,
       CollectLast
  <2>4. ChunkDone' /\ ConservedUnlessGarbled'
    BY <1>0, <1>16 DEF Numbers, ChunkDone, ConservedUnlessGarbled, Conserved, CollectLast
  <2>5. QED
    BY <2>1, <2>2, <2>3, <2>4, Zenon
<1>17. CASE CollectTooLong
  <2>1. Flags'
    BY <1>0, <1>17 DEF Flags, CollectTooLong
  <2>2. Numbers' /\ BufferNotOverrun' /\ BufferInBounds'
    BY <1>0, <1>17 DEF Numbers, BufferNotOverrun, BufferInBounds, CollectTooLong
  <2>3. CommandsDoNotOverlap' /\ PayloadWithinBuffer'
    BY <1>0, <1>17 DEF Numbers, CommandsDoNotOverlap, PayloadWithinBuffer,
       CollectTooLong
  <2>4. ChunkDone' /\ ConservedUnlessGarbled'
    BY <1>0, <1>17 DEF Numbers, ChunkDone, ConservedUnlessGarbled, Conserved, CollectTooLong
  <2>5. QED
    BY <2>1, <2>2, <2>3, <2>4, Zenon
<1>18. CASE PayloadByte
  <2>1. Flags'
    BY <1>0, <1>18 DEF Flags, PayloadByte
  <2>2. Numbers' /\ BufferNotOverrun' /\ BufferInBounds'
    BY <1>0, <1>18 DEF Numbers, BufferNotOverrun, BufferInBounds, PayloadByte
  <2>3. CommandsDoNotOverlap' /\ PayloadWithinBuffer'
    BY <1>0, <1>18 DEF Numbers, CommandsDoNotOverlap, PayloadWithinBuffer,
       PayloadByte
  <2>4. ChunkDone' /\ ConservedUnlessGarbled'
    BY <1>0, <1>18 DEF Numbers, ChunkDone, ConservedUnlessGarbled, Conserved, PayloadByte
  <2>5. QED
    BY <2>1, <2>2, <2>3, <2>4, Zenon
<1>19. CASE Answer
  <2>1. Flags'
    BY <1>0, <1>19 DEF Flags, Answer
  <2>2. Numbers' /\ BufferNotOverrun' /\ BufferInBounds'
    BY <1>0, <1>19 DEF Numbers, BufferNotOverrun, BufferInBounds, Answer
  <2>3. CommandsDoNotOverlap' /\ PayloadWithinBuffer'
    BY <1>0, <1>19 DEF Numbers, CommandsDoNotOverlap, PayloadWithinBuffer,
       Answer
  <2>4. ChunkDone' /\ ConservedUnlessGarbled'
    BY <1>0, <1>19 DEF Numbers, ChunkDone, ConservedUnlessGarbled, Conserved, Answer
  <2>5. QED
    BY <2>1, <2>2, <2>3, <2>4, Zenon
<1>20. CASE Break
  <2>1. Flags'
    BY <1>0, <1>20 DEF Flags, Break
  <2>2. Numbers' /\ BufferNotOverrun' /\ BufferInBounds'
    BY <1>0, <1>20 DEF Numbers, BufferNotOverrun, BufferInBounds, Break
  <2>3. CommandsDoNotOverlap' /\ PayloadWithinBuffer'
    BY <1>0, <1>20 DEF Numbers, CommandsDoNotOverlap, PayloadWithinBuffer,
       Break
  <2>4. ChunkDone' /\ ConservedUnlessGarbled'
    BY <1>0, <1>20 DEF Numbers, ChunkDone, ConservedUnlessGarbled, Conserved, Break
  <2>5. QED
    BY <2>1, <2>2, <2>3, <2>4, Zenon
<1>21. ASSUME NEW on \in BOOLEAN, SetEnable(on) PROVE Goal
  <2>1. Flags'
    BY <1>0, <1>21 DEF Flags, SetEnable
  <2>2. Numbers' /\ BufferNotOverrun' /\ BufferInBounds'
    BY <1>0, <1>21 DEF Numbers, BufferNotOverrun, BufferInBounds, SetEnable
  <2>3. CommandsDoNotOverlap' /\ PayloadWithinBuffer'
    BY <1>0, <1>21 DEF Numbers, CommandsDoNotOverlap, PayloadWithinBuffer,
       SetEnable
  <2>4. ChunkDone' /\ ConservedUnlessGarbled'
    BY <1>0, <1>21 DEF Numbers, ChunkDone, ConservedUnlessGarbled, Conserved, SetEnable
  <2>5. QED
    BY <2>1, <2>2, <2>3, <2>4, Zenon
<1>22. CASE UNCHANGED vars
  <2>1. Flags'
    BY <1>0, <1>22 DEF Flags, vars
  <2>2. Numbers' /\ BufferNotOverrun' /\ BufferInBounds'
    BY <1>0, <1>22 DEF Numbers, BufferNotOverrun, BufferInBounds, vars
  <2>3. CommandsDoNotOverlap' /\ PayloadWithinBuffer'
    BY <1>0, <1>22 DEF Numbers, CommandsDoNotOverlap, PayloadWithinBuffer,
       vars
  <2>4. ChunkDone' /\ ConservedUnlessGarbled'
    BY <1>0, <1>22 DEF Numbers, ChunkDone, ConservedUnlessGarbled, Conserved, vars
  <2>5. QED
    BY <2>1, <2>2, <2>3, <2>4, Zenon
<1>23. QED
  BY <1>1, <1>2, <1>3, <1>4, <1>5, <1>6, <1>7, <1>8, <1>9, <1>10, <1>11, <1>12, <1>13,
     <1>14, <1>15, <1>16, <1>17, <1>18, <1>19, <1>20, <1>21, <1>22, Zenon DEF Next, Loop

\* The inductive invariant, for every value of the constants.
THEOREM Inductive == Spec => []IInv
<1>1. IInv /\ [Next]_vars => IInv'
  BY StepInv
<1>2. QED
  BY <1>1, InitInv, PTL DEF Spec

\* Every variable keeps its type.
THEOREM TypeCorrect == Spec => []TypeOK
<1>1. IInv => TypeOK
  BY DEF IInv
<1>2. QED
  BY <1>1, Inductive, PTL

\* The spare room behind sscp_buffer is enough for every number at its end.
THEOREM NoOverrun == Spec => []BufferNotOverrun
<1>1. IInv => BufferNotOverrun
  BY DEF IInv
<1>2. QED
  BY <1>1, Inductive, PTL

\* The capture of a payload ends where the command said, and the one of no bytes,
\* which a REPLY at the end of its total asks for, is the only one that does not.
THEOREM PayloadExact == Spec => []PayloadWithinBuffer
<1>1. IInv => PayloadWithinBuffer
  BY DEF IInv
<1>2. QED
  BY <1>1, Inductive, PTL

\* No byte is lost or handed on twice, as long as no token runs over the end of
\* the command buffer.
THEOREM NothingLost == Spec => []ConservedUnlessGarbled
<1>1. IInv => ConservedUnlessGarbled
  BY DEF IInv
<1>2. QED
  BY <1>1, Inductive, PTL

\* Every step of the filter is a step of SscpFraming, or invisible to it.
LEMMA StepFraming ==
  ASSUME IInv, [Next]_vars
  PROVE  [Framing!Next]_Framing!vars
<1> USE FilterAssumption DEF Iterate, parser, payload, history, NoRoom, sscp_process, Mode
<1>0. Flags /\ Numbers /\ CommandsDoNotOverlap /\ PayloadWithinBuffer /\ ChunkDone
  BY TypeParts, Zenon DEF IInv
<1> USE DEF Numbers, Flags, States, ChunkDone, CommandsDoNotOverlap
<1>1. ASSUME NEW n \in 1..ChunkMax, Recv(n)
      PROVE  Framing!Text \/ UNCHANGED Framing!vars
  BY <1>0, <1>1 DEF Recv, Framing!Text, Framing!vars
<1>2. ASSUME EndChunk
      PROVE  UNCHANGED Framing!vars
  BY <1>0, <1>2 DEF EndChunk, Framing!vars
<1>3. ASSUME IdleStart
      PROVE  Framing!Begin
  BY <1>0, <1>3 DEF IdleStart, Framing!Begin
<1>4. ASSUME NEW b \in Bytes, IdleOther(b)
      PROVE  Framing!Text
  BY <1>0, <1>4 DEF IdleOther, Framing!Text
<1>5. ASSUME EndCommand
      PROVE  Framing!Finish \/ \E n \in PayloadLens : Framing!Ask(n)
  BY <1>0, <1>5 DEF EndCommand, Framing!Finish, Framing!Ask
<1>6. ASSUME NEW b \in Bytes, IntToken(b)
      PROVE  UNCHANGED Framing!vars
  BY <1>0, <1>6 DEF IntToken, Framing!vars
<1>7. ASSUME NEW k \in NameLens, NameToken(k)
      PROVE  UNCHANGED Framing!vars
  BY <1>0, <1>7 DEF NameToken, Framing!vars
<1>8. ASSUME NEW k \in NameLens, NameTooLong(k)
      PROVE  Framing!Abandon(1)
  BY <1>0, <1>8 DEF NameTooLong, Framing!Abandon
<1>9. ASSUME NEW b \in Bytes, Char(b)
      PROVE  UNCHANGED Framing!vars
  BY <1>0, <1>9 DEF Char, Framing!vars
<1>10. ASSUME NEW b \in Bytes, CharTooLong(b)
      PROVE  Framing!Abandon(1)
  BY <1>0, <1>10 DEF CharTooLong, Framing!Abandon
<1>11. ASSUME NEW b \in Bytes, NoRoomEnd(b)
      PROVE  Framing!Finish \/ \E n \in PayloadLens : Framing!Ask(n)
  BY <1>0, <1>11 DEF NoRoomEnd, Framing!Finish, Framing!Ask
<1>12. ASSUME NEW b \in Bytes, NEW c \in Bytes, NoRoomInt(b, c)
      PROVE  UNCHANGED Framing!vars
  BY <1>0, <1>12 DEF NoRoomInt, Framing!vars
<1>13. ASSUME NEW b \in Bytes, NoRoomName(b)
      PROVE  Framing!Abandon(1)
  BY <1>0, <1>13 DEF NoRoomName, Framing!Abandon
<1>14. ASSUME NEW b \in Bytes, NoRoomChar(b)
      PROVE  Framing!Abandon(1)
  BY <1>0, <1>14 DEF NoRoomChar, Framing!Abandon
<1>15. ASSUME CollectByte
      PROVE  UNCHANGED Framing!vars
  BY <1>0, <1>15 DEF CollectByte, Framing!vars
<1>16. ASSUME NEW end \in 0..(Max + Slack), CollectLast(end)
      PROVE  Framing!Abandon(0) \/ UNCHANGED Framing!vars
  BY <1>0, <1>16 DEF CollectLast, Framing!Abandon, Framing!vars
<1>17. ASSUME CollectTooLong
      PROVE  Framing!Abandon(1)
  BY <1>0, <1>17 DEF CollectTooLong, Framing!Abandon
<1>18. ASSUME PayloadByte
      PROVE  Framing!Take \/ UNCHANGED Framing!vars
  BY <1>0, <1>18 DEF PayloadByte, Framing!Take, Framing!vars, PayloadWithinBuffer
<1>19. ASSUME Answer
      PROVE  Framing!Answer
  BY <1>0, <1>19 DEF Answer, Framing!Answer
<1>20. ASSUME Break
      PROVE  Framing!Reset
  BY <1>0, <1>20 DEF Break, Framing!Reset
<1>21. ASSUME NEW on \in BOOLEAN, SetEnable(on)
      PROVE  UNCHANGED Framing!vars
  BY <1>0, <1>21 DEF SetEnable, Framing!vars
<1>22. ASSUME UNCHANGED vars
      PROVE  UNCHANGED Framing!vars
  BY <1>0, <1>22 DEF vars, Framing!vars
<1>23. Loop => [Framing!Next]_Framing!vars
  <2>1. Framing!Text \/ Framing!Begin \/ Framing!Take \/ Framing!Finish => Framing!Next
    BY DEF Framing!Next
  <2>2. \A n \in PayloadLens : Framing!Ask(n) => Framing!Next
    BY DEF Framing!Next
  <2>3. \A n \in 0..1 : Framing!Abandon(n) => Framing!Next
    BY DEF Framing!Next
  <2>4. 0 \in 0..1 /\ 1 \in 0..1
    OBVIOUS
  <2>5. QED
    BY <1>3, <1>4, <1>5, <1>6, <1>7, <1>8, <1>9, <1>10, <1>11, <1>12, <1>13, <1>14,
       <1>15, <1>16, <1>17, <1>18, <2>1, <2>2, <2>3, <2>4, Zenon DEF Loop
<1>24. Framing!Text \/ Framing!Answer \/ Framing!Reset => Framing!Next
  BY DEF Framing!Next
<1>25. QED
  BY <1>1, <1>2, <1>19, <1>20, <1>21, <1>22, <1>23, <1>24, Zenon DEF Next

\* The filter implements SscpFraming: every byte is text, part of a command or
\* payload, however the bytes are cut into chunks, also when a payload is empty.
THEOREM Refinement == Spec => ImplementsFraming
<1>1. Init => Framing!Init
  BY DEF Init, Framing!Init, Mode
<1>2. IInv /\ [Next]_vars => [Framing!Next]_Framing!vars
  BY StepFraming
<1>3. Spec => []IInv
  BY Inductive
<1>4. QED
  BY <1>1, <1>2, <1>3, PTL DEF Spec, ImplementsFraming, Framing!Spec
=============================================================================
