-------------------------- MODULE OrderFeedProofs --------------------------
(***************************************************************************)
(* The order feed keeps its promise whatever the number of events, the     *)
(* size of a batch and the number of restores: proofs of OrderFeed's type  *)
(* invariant, of the refinement of EventNotices and, if upkeep prunes only *)
(* what open streams have read, of NoSilentLoss.                           *)
(***************************************************************************)
EXTENDS OrderFeed, TLAPS

USE DEF Closed, latest, Kept

-----------------------------------------------------------------------------
(* Sequences. *)

\* What a sequence holds after one more.
LEMMA Appended ==
    ASSUME NEW S, NEW s \in Seq(S), NEW e
    PROVE  /\ Len(Append(s, e)) = Len(s) + 1
           /\ \A i \in 1..Len(s) : Append(s, e)[i] = s[i]
           /\ Append(s, e)[Len(s) + 1] = e
           /\ Range(Append(s, e)) = Range(s) \cup {e}
  <1>1. DOMAIN s = 1..Len(s) /\ Len(s) \in Nat
    BY SMT
  <1>2. DOMAIN Append(s, e) = 1 .. Len(s) + 1
    BY SMT
  <1>3. /\ Len(Append(s, e)) = Len(s) + 1
        /\ \A i \in 1..Len(s) : Append(s, e)[i] = s[i]
        /\ Append(s, e)[Len(s) + 1] = e
    BY SMT
  <1>4. Range(Append(s, e)) = Range(s) \cup {e}
    BY <1>1, <1>2, <1>3, SMT DEF Range
  <1> QED BY <1>3, <1>4

\* Ids are given out in growing numbers: a sequence of them stays one.
LEMMA Longer ==
    ASSUME NEW m \in Nat, NEW s \in Seq(1..m)
    PROVE  s \in Seq(1 .. m + 1) /\ Append(s, m + 1) \in Seq(1 .. m + 1)
  <1>1. s \in Seq(1 .. m + 1)
    BY SMT
  <1> QED BY <1>1, SMT

\* The beginning of a sequence.
LEMMA Beginning ==
    ASSUME NEW S, NEW s \in Seq(S), NEW n \in 0..Len(s)
    PROVE  /\ SubSeq(s, 1, n) \in Seq(S) /\ Len(SubSeq(s, 1, n)) = n
           /\ \A i \in 1..n : SubSeq(s, 1, n)[i] = s[i]
           /\ Range(SubSeq(s, 1, n)) = {s[i] : i \in 1..n}
  <1>1. SubSeq(s, 1, n) \in Seq(S) /\ Len(SubSeq(s, 1, n)) = n
    BY SMT
  <1>2. \A i \in 1..n : SubSeq(s, 1, n)[i] = s[i]
    BY SMT
  <1>3. DOMAIN SubSeq(s, 1, n) = 1..n
    BY <1>1, SMT
  <1>4. Range(SubSeq(s, 1, n)) = {SubSeq(s, 1, n)[i] : i \in 1..n}
    BY <1>3 DEF Range
  <1>5. Range(SubSeq(s, 1, n)) = {s[i] : i \in 1..n}
    BY <1>2, <1>4
  <1> QED BY <1>1, <1>2, <1>5

LEMMA Places ==
    ASSUME NEW S, NEW s \in Seq(S)
    PROVE  Range(s) = {s[i] : i \in 1..Len(s)} /\ \A i \in 1..Len(s) : s[i] \in S
  <1>1. DOMAIN s = 1..Len(s)
    BY SMT
  <1> QED BY <1>1, SMT DEF Range

-----------------------------------------------------------------------------
(* The types.  They hold whether or not upkeep prunes what an open stream has  *)
(* still to read.                                                              *)

\* Without a stream there is nothing on the line: what was sent is lost with it.
Shut == ~open => stream = Closed /\ notice = Closed /\ unheard = {}

\* A restored log holds what the backup says it kept, and a notice is of the log
\* it is heard by: the log is shortened only while no stream is open.
Typed ==
    /\ TypeOK /\ Shut
    /\ notice <= latest /\ backup.oldest <= backup.latest + 1

LEMMA TypedStarts == Init => Typed
  <1> SUFFICES ASSUME Init PROVE Typed
    OBVIOUS
  <1>1. log = <<>> /\ queue = <<>> /\ latest = 0 /\ made = 0
    BY SMT DEF Init
  <1>2. backup \in [latest : Nat, oldest : Nat \ {0}] /\ backup.oldest <= backup.latest + 1
    BY SMT DEF Init
  <1>3. log \in Seq(1..made) /\ queue \in Seq(1..made)
    BY <1>1, SMT
  <1>4. made \in Nat /\ oldest \in 1 .. latest + 1 /\ after \in Nat /\ afterId \in 0..made
    BY <1>1, SMT DEF Init
  <1>5. /\ stream \in Nat \cup {Closed} /\ notice \in Nat \cup {Closed}
        /\ unheard \subseteq [seq : 1..latest, event : 1..made]
        /\ open \in BOOLEAN /\ reported \subseteq 1..made
    BY DEF Init
  <1>6. Shut /\ notice <= latest
    BY <1>1, SMT DEF Init, Shut
  <1> QED BY <1>2, <1>3, <1>4, <1>5, <1>6 DEF TypeOK, Typed

LEMMA AppendTyped == Typed /\ AppendEvent => Typed'
  <1> SUFFICES ASSUME Typed, AppendEvent PROVE Typed'
    OBVIOUS
  <1> USE DEF Typed
  <1>1. log \in Seq(1..made) /\ made \in Nat /\ queue \in Seq(1..made) /\ latest \in Nat
    BY SMT DEF TypeOK
  <1>2. /\ made' = made + 1 /\ log' = Append(log, made + 1)
        /\ UNCHANGED <<oldest, backup, stream, notice, unheard, after, afterId, queue, open, reported>>
    BY DEF AppendEvent, line, reader
  <1>3. latest' = latest + 1
    BY <1>1, <1>2, Appended
  <1>4. log' \in Seq(1..made') /\ queue' \in Seq(1..made')
    BY <1>1, <1>2, Longer
  <1>5. unheard' \subseteq [seq : 1..latest', event : 1..made']
    BY <1>1, <1>2, <1>3, SMT DEF TypeOK
  <1>6. /\ made' \in Nat /\ oldest' \in 1 .. latest' + 1 /\ after' \in Nat
        /\ afterId' \in 0..made' /\ reported' \subseteq 1..made'
    BY <1>1, <1>2, <1>3, SMT DEF TypeOK
  <1>7. /\ backup' \in [latest : Nat, oldest : Nat \ {0}]
        /\ stream' \in Nat \cup {Closed} /\ notice' \in Nat \cup {Closed}
        /\ open' \in BOOLEAN
    BY <1>2 DEF TypeOK
  <1>8. Shut' /\ notice' <= latest' /\ backup'.oldest <= backup'.latest + 1
    BY <1>1, <1>2, <1>3, SMT DEF Shut, TypeOK
  <1> QED BY <1>4, <1>5, <1>6, <1>7, <1>8 DEF TypeOK

\* The steps of the log that add no event.
LEMMA LogTyped ==
    ASSUME Typed, BackUp \/ Restore \/ \E n \in Int : Prune(n)
    PROVE  Typed'
  <1> USE DEF Typed
  <1>1. /\ log \in Seq(1..made) /\ made \in Nat /\ latest \in Nat /\ oldest \in 1 .. latest + 1
        /\ backup \in [latest : Nat, oldest : Nat \ {0}]
    BY SMT DEF TypeOK
  <1>2. CASE BackUp
    <2>1. /\ backup' = [latest |-> latest, oldest |-> oldest]
          /\ UNCHANGED <<made, log, oldest, stream, notice, unheard, after, afterId, queue, open, reported>>
      BY <1>2 DEF BackUp, line, reader
    <2>2. backup' \in [latest : Nat, oldest : Nat \ {0}] /\ backup'.oldest <= backup'.latest + 1
      BY <1>1, <2>1, SMT
    <2> QED BY <2>1, <2>2 DEF TypeOK, Shut
  <1>3. CASE Restore
    <2>1. /\ ~open /\ backup.latest < latest
          /\ log' = SubSeq(log, 1, backup.latest) /\ oldest' = backup.oldest
          /\ UNCHANGED <<made, backup, stream, notice, unheard, after, afterId, queue, open, reported>>
      BY <1>3 DEF Restore, line, reader
    <2>2. backup.latest \in 0..latest /\ backup.oldest \in 1 .. backup.latest + 1
      BY <1>1, <2>1, SMT
    <2>3. log' \in Seq(1..made) /\ latest' = backup.latest
      BY <1>1, <2>1, <2>2, Beginning
    <2>4. unheard = {} /\ stream = Closed /\ notice = Closed
      BY <2>1 DEF Shut
    <2>5. TypeOK'
      BY <2>1, <2>2, <2>3, <2>4 DEF TypeOK
    <2>6. notice' <= latest'
      BY <1>1, <2>1, <2>3, <2>4, SMT
    <2> QED BY <2>1, <2>4, <2>5, <2>6 DEF Shut
  <1>4. CASE \E n \in Int : Prune(n)
    <2>1. /\ oldest' \in oldest + 1 .. latest + 1
          /\ UNCHANGED <<made, log, backup, stream, notice, unheard, after, afterId, queue, open, reported>>
      BY <1>4 DEF Prune, line, reader
    <2>2. oldest' \in 1 .. latest + 1
      BY <1>1, <2>1, SMT
    <2> QED BY <2>1, <2>2 DEF TypeOK, Shut
  <1> QED BY <1>2, <1>3, <1>4

LEMMA StreamTyped ==
    ASSUME Typed, Open \/ ReadBatch \/ EndStream
    PROVE  Typed'
  <1> USE DEF Typed
  <1>1. log \in Seq(1..made) /\ latest \in Nat /\ oldest \in 1 .. latest + 1 /\ after \in Nat
    BY SMT DEF TypeOK
  <1>2. CASE Open
    <2>1. /\ open' = TRUE
          /\ stream' = (IF EventsLost THEN oldest - 1 ELSE after)
          /\ notice' = (IF EventsLost THEN oldest - 1 ELSE Closed)
          /\ UNCHANGED <<made, log, oldest, backup, unheard, after, afterId, queue, reported>>
      BY <1>2 DEF Open, engine
    <2>2. oldest - 1 \in Nat /\ oldest - 1 <= latest /\ Closed <= latest
      BY <1>1, SMT
    <2> QED BY <1>1, <2>1, <2>2 DEF TypeOK, Shut
  <1>3. CASE ReadBatch
    <2>1. /\ stream # Closed /\ stream' \in NextBatch
          /\ unheard' = unheard \cup {[seq |-> i, event |-> log[i]] : i \in NextBatch}
          /\ UNCHANGED <<made, log, oldest, backup, notice, after, afterId, queue, open, reported>>
      BY <1>3 DEF ReadBatch, engine, reader
    <2>2. stream \in Nat
      BY <2>1 DEF TypeOK
    <2>3. NextBatch \subseteq 1..latest
      BY <1>1, <2>2, SMT DEF NextBatch
    <2>4. stream' \in Nat
      BY <1>1, <2>1, <2>3, SMT
    <2>5. \A i \in NextBatch : log[i] \in 1..made
      BY <1>1, <2>3, Places
    <2> QED BY <2>1, <2>3, <2>4, <2>5 DEF TypeOK, Shut
  <1>4. CASE EndStream
    BY <1>4 DEF EndStream, engine, reader, TypeOK, Shut
  <1> QED BY <1>2, <1>3, <1>4

\* A queued event is one of the queue's; the queue is a sequence of ids.
LEMMA QueuedIds ==
    ASSUME NEW m \in Nat, queue \in Seq(1..m), NEW e \in 1..m
    PROVE  Queued(e) \in Seq(1..m)
  <1>1. Append(queue, e) \in Seq(1..m)
    BY SMT
  <1> QED BY <1>1 DEF Queued

LEMMA ReaderTyped ==
    ASSUME Typed, HearLost \/ HearEvent \/ Disconnect
    PROVE  Typed'
  <1> USE DEF Typed
  <1>1. /\ log \in Seq(1..made) /\ made \in Nat /\ latest \in Nat /\ queue \in Seq(1..made)
        /\ 0 \in 0..made /\ Closed <= latest
    BY SMT DEF TypeOK
  <1>2. CASE HearLost
    <2>1. /\ open /\ notice # Closed /\ after' = notice /\ afterId' = 0 /\ notice' = Closed
          /\ reported' = reported \cup {log[i] : i \in 1..notice}
          /\ UNCHANGED <<made, log, oldest, backup, stream, unheard, queue, open>>
      BY <1>2 DEF HearLost, engine
    <2>2. notice \in Nat /\ \A i \in 1..notice : i \in 1..latest
      BY <1>1, <2>1, SMT DEF TypeOK
    <2>3. \A i \in 1..notice : log[i] \in 1..made
      BY <1>1, <2>2, Places
    <2> QED BY <1>1, <2>1, <2>2, <2>3 DEF TypeOK, Shut
  <1>3. CASE HearEvent
    <2>1. PICK m \in unheard :
            /\ unheard' = unheard \ {m}
            /\ IF m.seq <= after THEN UNCHANGED <<after, afterId, queue, reported>>
               ELSE /\ after' = m.seq
                    /\ IF m.event \in Unreadable
                       THEN afterId' = 0 /\ reported' = reported \cup {m.event} /\ UNCHANGED queue
                       ELSE afterId' = m.event /\ queue' = Queued(m.event) /\ UNCHANGED reported
      BY <1>3 DEF HearEvent
    <2>2. open /\ UNCHANGED <<made, log, oldest, backup, stream, notice, open>>
      BY <1>3 DEF HearEvent, engine
    <2>3. m.seq \in 1..latest /\ m.event \in 1..made
      BY <2>1 DEF TypeOK
    <2>4. m.seq \in Nat /\ m.event \in 0..made
      BY <1>1, <2>3, SMT
    <2>6. Queued(m.event) \in Seq(1..made)
      BY <1>1, <2>3, QueuedIds
    <2>5. /\ after' \in Nat /\ afterId' \in 0..made /\ queue' \in Seq(1..made)
          /\ reported' \subseteq 1..made
      <3>1. CASE UNCHANGED <<after, afterId, queue, reported>>
        BY <3>1 DEF TypeOK
      <3>2. CASE after' = m.seq /\ afterId' = 0 /\ reported' = reported \cup {m.event} /\ UNCHANGED queue
        BY <1>1, <2>3, <2>4, <3>2 DEF TypeOK
      <3>3. CASE after' = m.seq /\ afterId' = m.event /\ queue' = Queued(m.event) /\ UNCHANGED reported
        BY <2>4, <2>6, <3>3 DEF TypeOK
      <3> QED BY <2>1, <3>1, <3>2, <3>3
    <2> QED BY <2>1, <2>2, <2>5 DEF TypeOK, Shut
  <1>4. CASE Disconnect
    BY <1>1, <1>4 DEF Disconnect, LeftOver, engine, TypeOK, Shut
  <1> QED BY <1>2, <1>3, <1>4

LEMMA TypedStep ==
    ASSUME Typed, [Next]_vars
    PROVE  Typed'
  <1>1. CASE UNCHANGED vars
    BY <1>1 DEF vars, engine, line, reader, Typed, TypeOK, Shut
  <1>2. CASE \E n \in 1..MaxEvents + 1 : Prune(n)
    BY <1>2, LogTyped
  <1> QED BY <1>1, <1>2, AppendTyped, LogTyped, StreamTyped, ReaderTyped DEF Next

-----------------------------------------------------------------------------
(* The inductive invariant. *)

Distinct == \A i, j \in 1..latest : log[i] = log[j] => i = j

\* A backup is of an earlier log, with no less kept.
Copied ==
    /\ backup.latest <= latest
    /\ backup.oldest <= oldest /\ backup.oldest <= backup.latest + 1

Told(i) == log[i] \in Range(queue) \/ log[i] \in reported

\* The position is of this log: all before it is told.
Placed ==
    /\ after <= latest
    /\ afterId # 0 => after \in 1..latest /\ log[after] = afterId
    /\ \A i \in 1..after : Told(i)

\* Or it names an event of another life of it, and the log will show so.
Strange == Foreign /\ after >= oldest

\* Where monokulo is once it has heard the notice.
Base == IF notice # Closed THEN notice ELSE after

Sent(i) == [seq |-> i, event |-> log[i]]

\* What was sent and not heard follows on from there without a gap.
OnTheWay ==
    open =>
      /\ notice <= latest
      /\ notice = Closed => Placed
      /\ \A m \in unheard :
            /\ m.seq > Base /\ m.event = log[m.seq]
            /\ \A i \in Base + 1 .. m.seq : Sent(i) \in unheard
      /\ stream # Closed =>
            /\ Base <= stream /\ stream <= latest /\ oldest <= stream + 1
            /\ \A m \in unheard : m.seq <= stream
            /\ \A i \in Base + 1 .. stream : Sent(i) \in unheard

IInv ==
    /\ TypeOK /\ Distinct /\ Copied /\ Shut /\ OnTheWay
    /\ Placed \/ Strange

LEMMA InvariantTypes == IInv => Typed
  <1>1. TypeOK => latest \in Nat /\ latest >= Closed
    BY SMT DEF TypeOK
  <1> QED BY <1>1 DEF IInv, Typed, Shut, OnTheWay, Copied, TypeOK

LEMMA InitInvariant == Init => IInv
  <1> SUFFICES ASSUME Init PROVE IInv
    OBVIOUS
  <1>1. log = <<>> /\ queue = <<>> /\ latest = 0 /\ made = 0
    BY SMT DEF Init
  <1>2. TypeOK
    BY TypedStarts DEF Typed
  <1>3. Distinct /\ Copied /\ Shut /\ OnTheWay /\ Placed
    BY <1>1, SMT DEF Init, Distinct, Copied, Shut, OnTheWay, Placed
  <1> QED BY <1>2, <1>3 DEF IInv

\* Steps that leave the log and what is told as they are keep what is said
\* of a position.
LEMMA PositionKept ==
    ASSUME UNCHANGED <<log, queue, reported, after, afterId>>
    PROVE  Placed' = Placed /\ Foreign' = Foreign
  BY DEF Placed, Told, Foreign

LEMMA AppendStep == IInv /\ AppendEvent => IInv'
  <1> SUFFICES ASSUME IInv, AppendEvent PROVE IInv'
    OBVIOUS
  <1> USE DEF IInv
  <1>1. log \in Seq(1..made) /\ made \in Nat /\ queue \in Seq(1..made) /\ latest \in Nat
    BY SMT DEF TypeOK
  <1>2. /\ made' = made + 1 /\ log' = Append(log, made + 1)
        /\ UNCHANGED <<oldest, backup, stream, notice, unheard, after, afterId, queue, open, reported>>
    BY DEF AppendEvent, line, reader
  <1>3. /\ latest' = latest + 1 /\ \A i \in 1..latest : log'[i] = log[i]
        /\ log'[latest + 1] = made + 1 /\ Range(log') = Range(log) \cup {made + 1}
    BY <1>1, <1>2, Appended
  <1>4. \A i \in 1..latest : log[i] \in 1..made
    BY <1>1, Places
  <1>5. TypeOK'
    BY InvariantTypes, AppendTyped DEF Typed
  <1>6. Distinct'
    <2>1. \A i \in 1..latest' : i \in 1..latest \/ i = latest + 1
      BY <1>1, <1>3, SMT
    <2>2. \A e \in 1..made : e # made + 1
      BY <1>1, SMT
    <2>3. \A i \in 1..latest : log'[i] # made + 1
      BY <1>3, <1>4, <2>2
    <2> QED BY <1>3, <2>1, <2>3 DEF Distinct
  <1>7. Copied'
    BY <1>1, <1>2, <1>3, SMT DEF Copied, TypeOK
  <1>8. Shut'
    BY <1>2 DEF Shut
  <1>9. Placed => Placed'
    BY <1>1, <1>2, <1>3, SMT DEF Placed, Told, TypeOK
  <1>10. Strange => Strange'
    BY <1>1, <1>2, <1>3, SMT DEF Strange, Foreign, TypeOK
  <1>11. OnTheWay'
    <2>1. \A m \in unheard : m.seq \in 1..latest
      BY SMT DEF TypeOK
    <2>2. \A i \in 1..latest : Sent(i)' = Sent(i)
      BY <1>3 DEF Sent
    <2>3. Base' = Base /\ Base \in Nat /\ notice \in Nat \cup {Closed}
      BY <1>2, SMT DEF Base, TypeOK
    <2> SUFFICES ASSUME open PROVE OnTheWay'
      BY <1>2 DEF OnTheWay
    <2>4. notice' <= latest' /\ (notice' = Closed => Placed')
      BY <1>1, <1>2, <1>3, <1>9, <2>3, SMT DEF OnTheWay
    <2>5. ASSUME NEW m \in unheard
          PROVE  /\ m.seq > Base /\ m.event = log'[m.seq]
                 /\ \A i \in Base + 1 .. m.seq : Sent(i)' \in unheard
      <3>1. /\ m.seq > Base /\ m.event = log[m.seq] /\ m.seq \in 1..latest
            /\ \A i \in Base + 1 .. m.seq : Sent(i) \in unheard
        BY <2>1 DEF OnTheWay
      <3>2. \A i \in Base + 1 .. m.seq : i \in 1..latest
        BY <1>1, <2>3, <3>1, SMT
      <3> QED BY <1>3, <2>2, <3>1, <3>2
    <2>6. ASSUME stream # Closed
          PROVE  /\ Base <= stream /\ stream <= latest' /\ oldest <= stream + 1
                 /\ \A m \in unheard : m.seq <= stream
                 /\ \A i \in Base + 1 .. stream : Sent(i)' \in unheard
      <3>1. /\ Base <= stream /\ stream <= latest /\ oldest <= stream + 1
            /\ \A m \in unheard : m.seq <= stream
            /\ \A i \in Base + 1 .. stream : Sent(i) \in unheard
        BY <2>6 DEF OnTheWay
      <3>2. stream \in Nat
        BY <2>6 DEF TypeOK
      <3>3. \A i \in Base + 1 .. stream : i \in 1..latest
        BY <1>1, <2>3, <3>1, <3>2, SMT
      <3>4. stream <= latest'
        BY <1>1, <1>3, <3>1, <3>2, SMT
      <3> QED BY <2>2, <3>1, <3>3, <3>4
    <2> QED BY <1>2, <2>3, <2>4, <2>5, <2>6 DEF OnTheWay
  <1> QED BY <1>5, <1>6, <1>7, <1>8, <1>9, <1>10, <1>11

\* The steps that leave the log and both ends of the line as they are.
LEMMA PruneStep ==
    ASSUME ~PrunedUnread, IInv, NEW n, Prune(n)
    PROVE  IInv'
  <1> USE DEF IInv
  <1>1. /\ n \in oldest + 1 .. latest + 1 /\ oldest' = n /\ ~Foreign
        /\ stream = Closed \/ n <= stream + 1
        /\ UNCHANGED <<made, log, backup, stream, notice, unheard, after, afterId, queue, open, reported>>
    BY DEF Prune, line, reader
  <1>2. oldest \in 1 .. latest + 1 /\ latest \in Nat
    BY SMT DEF TypeOK
  <1>3. TypeOK'
    BY <1>1, <1>2, SMT DEF TypeOK
  <1>4. Distinct' /\ Shut' /\ Placed'
    BY <1>1, PositionKept DEF Distinct, Shut, Strange
  <1>5. Copied'
    BY <1>1, <1>2, SMT DEF Copied, TypeOK
  <1>6. OnTheWay'
    <2>1. stream # Closed => oldest' <= stream + 1
      BY <1>1, SMT DEF TypeOK
    <2> QED BY <1>1, <1>4, <2>1 DEF OnTheWay, Base, Sent
  <1> QED BY <1>3, <1>4, <1>5, <1>6

LEMMA BackUpStep == IInv /\ BackUp => IInv'
  <1> SUFFICES ASSUME IInv, BackUp PROVE IInv'
    OBVIOUS
  <1> USE DEF IInv
  <1>1. /\ backup' = [latest |-> latest, oldest |-> oldest]
        /\ UNCHANGED <<made, log, oldest, stream, notice, unheard, after, afterId, queue, open, reported>>
    BY DEF BackUp, line, reader
  <1>2. oldest \in 1 .. latest + 1 /\ latest \in Nat
    BY SMT DEF TypeOK
  <1>3. backup'.latest = latest /\ backup'.oldest = oldest /\ backup' \in [latest : Nat, oldest : Nat \ {0}]
    BY <1>1, <1>2, SMT
  <1>4. TypeOK'
    BY <1>1, <1>3 DEF TypeOK
  <1>5. Copied'
    BY <1>1, <1>2, <1>3, SMT DEF Copied
  <1>6. Distinct' /\ Shut' /\ OnTheWay' /\ (Placed \/ Strange)'
    BY <1>1, PositionKept DEF Distinct, Shut, Strange, OnTheWay, Base, Sent
  <1> QED BY <1>4, <1>5, <1>6

\* A position within the copy stays placed; one beyond names an event that
\* the log no longer has.
LEMMA RestoreStep == IInv /\ Restore => IInv'
  <1> SUFFICES ASSUME IInv, Restore PROVE IInv'
    OBVIOUS
  <1> USE DEF IInv
  <1> DEFINE n == backup.latest
  <1>1. /\ ~open /\ (afterId # 0 \/ after <= n) /\ n < latest
        /\ log' = SubSeq(log, 1, n) /\ oldest' = backup.oldest
        /\ UNCHANGED <<made, backup, stream, notice, unheard, after, afterId, queue, open, reported>>
    BY DEF Restore, line, reader
  <1>2. /\ log \in Seq(1..made) /\ made \in Nat /\ latest \in Nat /\ n \in Nat
        /\ backup.oldest \in Nat \ {0} /\ oldest \in Nat /\ after \in Nat /\ afterId \in 0..made
    BY SMT DEF TypeOK
  <1>3. n \in 0..latest /\ backup.oldest \in 1 .. n + 1
    BY <1>1, <1>2, SMT DEF Copied
  <1> HIDE DEF n
  <1>4. /\ log' \in Seq(1..made) /\ latest' = n /\ \A i \in 1..n : log'[i] = log[i]
        /\ Range(log') = {log[i] : i \in 1..n}
    <2>1. n \in 0..Len(log) /\ log \in Seq(1..made) /\ log' = SubSeq(log, 1, n)
      BY <1>1, <1>2, <1>3
    <2>2. /\ SubSeq(log, 1, n) \in Seq(1..made) /\ Len(SubSeq(log, 1, n)) = n
          /\ \A i \in 1..n : SubSeq(log, 1, n)[i] = log[i]
          /\ Range(SubSeq(log, 1, n)) = {log[i] : i \in 1..n}
      BY <2>1, Beginning
    <2> QED BY <2>1, <2>2
  <1>5. Range(log) = {log[i] : i \in 1..latest}
    BY <1>2, Places
  <1>6. \A i \in 1..n : i \in 1..latest
    BY <1>2, <1>3, SMT
  <1>7. unheard = {} /\ stream = Closed /\ notice = Closed
    BY <1>1 DEF Shut
  <1>8. TypeOK'
    BY InvariantTypes, LogTyped DEF Typed
  <1>9. Distinct'
    BY <1>4, <1>6 DEF Distinct
  <1>10. Copied'
    BY <1>1, <1>2, <1>3, <1>4, SMT DEF Copied, n
  <1>11. Shut' /\ OnTheWay'
    BY <1>1, <1>7 DEF Shut, OnTheWay
  <1>12. CASE Placed /\ after <= n
    <2>1. after \in 1..latest => after \in 1..n
      BY <1>2, <1>12, SMT
    <2>2. \A i \in 1..after : i \in 1..n
      BY <1>2, <1>12, SMT
    <2>3. Placed'
      BY <1>1, <1>4, <1>12, <2>1, <2>2 DEF Placed, Told
    <2> QED BY <1>8, <1>9, <1>10, <1>11, <2>3
  <1>13. CASE Placed /\ ~(after <= n)
    <2>1. afterId # 0 /\ after \in 1..latest /\ log[after] = afterId
      BY <1>1, <1>13 DEF Placed
    <2>2. \A i \in 1..n : i # after
      BY <1>2, <1>13, SMT
    <2>3. afterId \notin Range(log')
      BY <1>4, <1>6, <2>1, <2>2 DEF Distinct
    <2>4. after >= oldest'
      BY <1>1, <1>2, <1>3, <1>13, SMT
    <2>5. Strange'
      BY <1>1, <2>1, <2>3, <2>4 DEF Strange, Foreign
    <2> QED BY <1>8, <1>9, <1>10, <1>11, <2>5
  <1>14. CASE Strange
    <2>1. afterId # 0 /\ afterId \notin Range(log')
      BY <1>4, <1>5, <1>6, <1>14 DEF Strange, Foreign
    <2>2. after >= oldest'
      BY <1>1, <1>2, <1>14, SMT DEF Strange, Copied
    <2>3. Strange'
      BY <1>1, <2>1, <2>2 DEF Strange, Foreign
    <2> QED BY <1>8, <1>9, <1>10, <1>11, <2>3
  <1> QED BY <1>12, <1>13, <1>14

-----------------------------------------------------------------------------
(* The stream. *)

\* A position the engine finds nothing wrong with is of this log.
LEMMA CompleteIsPlaced ==
    ASSUME IInv, ~EventsLost
    PROVE  Placed /\ oldest <= after + 1
  <1> USE DEF IInv
  <1>1. log \in Seq(1..made) /\ latest \in Nat /\ after \in Nat /\ oldest \in 1 .. latest + 1
    BY SMT DEF TypeOK
  <1>2. after <= latest /\ oldest <= after + 1 /\ ~AnotherEvents
    BY <1>1, SMT DEF EventsLost
  <1>3. ~Strange
    <2> SUFFICES ASSUME Strange PROVE FALSE
      OBVIOUS
    <2>1. after \in Kept /\ after \in 1..latest
      BY <1>1, <1>2, SMT DEF Strange
    <2>2. log[after] \in Range(log)
      BY <1>1, <2>1, Places
    <2> QED BY <1>2, <2>1, <2>2 DEF Strange, Foreign, AnotherEvents
  <1> QED BY <1>2, <1>3

LEMMA OpenStep == IInv /\ Open => IInv'
  <1> SUFFICES ASSUME IInv, Open PROVE IInv'
    OBVIOUS
  <1> USE DEF IInv
  <1>1. /\ ~open /\ open' = TRUE
        /\ stream' = (IF EventsLost THEN oldest - 1 ELSE after)
        /\ notice' = (IF EventsLost THEN oldest - 1 ELSE Closed)
        /\ UNCHANGED <<made, log, oldest, backup, unheard, after, afterId, queue, reported>>
    BY DEF Open, engine
  <1>2. unheard = {}
    BY <1>1 DEF Shut
  <1>3. oldest \in 1 .. latest + 1 /\ latest \in Nat /\ after \in Nat
    BY SMT DEF TypeOK
  <1>4. oldest - 1 \in Nat /\ oldest - 1 <= latest
    BY <1>3, SMT
  <1>5. TypeOK'
    BY InvariantTypes, StreamTyped DEF Typed
  <1>6. Distinct' /\ Copied' /\ Shut' /\ (Placed \/ Strange)'
    BY <1>1, PositionKept DEF Distinct, Copied, Shut, Strange
  <1>7. CASE EventsLost
    <2>1. /\ stream' = oldest - 1 /\ notice' = oldest - 1 /\ unheard' = {}
          /\ stream' # Closed /\ notice' # Closed
      BY <1>1, <1>2, <1>3, <1>7, SMT
    <2>2. Base' = stream'
      BY <2>1 DEF Base
    <2>3. \A i \in Base' + 1 .. stream' : FALSE
      BY <1>4, <2>1, <2>2, SMT
    <2>4. Base' <= stream' /\ stream' <= latest' /\ oldest' <= stream' + 1 /\ notice' <= latest'
      BY <1>1, <1>3, <1>4, <2>1, <2>2, SMT
    <2>5. OnTheWay'
      BY <2>1, <2>3, <2>4 DEF OnTheWay
    <2> QED BY <1>5, <1>6, <2>5
  <1>8. CASE ~EventsLost
    <2>1. Placed' /\ oldest <= after + 1 /\ after <= latest
      BY <1>1, <1>8, CompleteIsPlaced, PositionKept DEF Placed
    <2>2. stream' = after /\ notice' = Closed /\ unheard' = {}
      BY <1>1, <1>2, <1>8
    <2>3. Base' = stream'
      BY <1>1, <2>2 DEF Base
    <2>4. \A i \in Base' + 1 .. stream' : FALSE
      BY <1>3, <2>2, <2>3, SMT
    <2>5. Base' <= stream' /\ stream' <= latest' /\ oldest' <= stream' + 1 /\ notice' <= latest'
      BY <1>1, <1>3, <2>1, <2>2, <2>3, SMT
    <2>6. OnTheWay'
      BY <2>1, <2>2, <2>4, <2>5 DEF OnTheWay
    <2> QED BY <1>5, <1>6, <2>6
  <1> QED BY <1>7, <1>8

\* A batch follows on from what was sent: nothing the stream has still to read
\* was pruned.
LEMMA ReadBatchStep == IInv /\ ReadBatch => IInv'
  <1> SUFFICES ASSUME IInv, ReadBatch PROVE IInv'
    OBVIOUS
  <1> USE DEF IInv
  <1>1. /\ stream # Closed /\ stream' \in NextBatch /\ \A i \in NextBatch : i <= stream'
        /\ unheard' = unheard \cup {Sent(i) : i \in NextBatch}
        /\ UNCHANGED <<made, log, oldest, backup, notice, after, afterId, queue, open, reported>>
    BY DEF ReadBatch, Sent, engine, reader
  <1>2. /\ log \in Seq(1..made) /\ latest \in Nat /\ after \in Nat /\ oldest \in 1 .. latest + 1
        /\ stream \in Nat /\ notice \in Nat \cup {Closed} /\ Base \in Nat
    BY <1>1, SMT DEF TypeOK, Base
  <1>3. /\ open /\ Base <= stream /\ stream <= latest /\ oldest <= stream + 1
        /\ \A m \in unheard : m.seq <= stream
        /\ \A i \in Base + 1 .. stream : Sent(i) \in unheard
    BY <1>1 DEF Shut, OnTheWay
  <1>4. NextBatch = {i \in stream + 1 .. latest : i < stream + 1 + Batch}
    BY <1>2, <1>3, SMT DEF NextBatch
  <1>5. /\ \A i \in NextBatch : i \in 1..latest /\ i > stream
        /\ \A i \in NextBatch : \A j \in stream + 1 .. i : j \in NextBatch
    BY <1>2, <1>4, FeedAssumption, SMT
  <1>6. stream' \in 1..latest /\ stream' > stream /\ stream' \in Nat
    BY <1>1, <1>2, <1>5, SMT
  <1>8. TypeOK'
    BY InvariantTypes, StreamTyped DEF Typed
  <1>9. Distinct' /\ Copied' /\ Shut' /\ (Placed \/ Strange)'
    BY <1>1, <1>3, PositionKept DEF Distinct, Copied, Shut, Strange
  <1>10. Base' = Base /\ \A i \in Int : Sent(i)' = Sent(i)
    BY <1>1 DEF Base, Sent
  <1>11. \A i \in Base + 1 .. stream' : Sent(i) \in unheard'
    <2> SUFFICES ASSUME NEW i \in Base + 1 .. stream' PROVE Sent(i) \in unheard'
      OBVIOUS
    <2>1. i \in Base + 1 .. stream \/ i \in stream + 1 .. stream'
      BY <1>2, <1>6, SMT
    <2> QED BY <1>1, <1>3, <1>5, <2>1
  <1>12. ASSUME NEW m \in unheard'
         PROVE  /\ m.seq > Base /\ m.event = log[m.seq] /\ m.seq <= stream' /\ m.seq \in Nat
    <2>1. CASE m \in unheard
      <3>1. m.seq > Base /\ m.event = log[m.seq] /\ m.seq <= stream /\ m.seq \in Nat
        BY <1>3, <2>1, SMT DEF OnTheWay, TypeOK
      <3>2. m.seq <= stream'
        BY <1>2, <1>6, <3>1, SMT
      <3> QED BY <3>1, <3>2
    <2>2. CASE \E i \in NextBatch : m = Sent(i)
      <3>1. PICK i \in NextBatch : m = Sent(i)
        BY <2>2
      <3>2. m.seq = i /\ m.event = log[i]
        BY <3>1 DEF Sent
      <3>3. i > Base /\ i <= stream' /\ i \in Nat
        BY <1>1, <1>2, <1>3, <1>5, SMT
      <3> QED BY <3>2, <3>3
    <2> QED BY <1>1, <2>1, <2>2
  <1>13. ASSUME NEW m \in unheard', NEW i \in Base + 1 .. m.seq
         PROVE  Sent(i) \in unheard'
    <2>1. i \in Base + 1 .. stream'
      BY <1>2, <1>6, <1>12, SMT
    <2> QED BY <1>11, <2>1
  <1>14. notice' <= latest' /\ (notice' = Closed => Placed')
    <2>1. Placed' = Placed
      BY <1>1, PositionKept
    <2>2. notice <= latest /\ (notice = Closed => Placed)
      BY <1>3 DEF OnTheWay
    <2> QED BY <1>1, <2>1, <2>2
  <1>15. Base <= stream' /\ stream' <= latest /\ oldest <= stream' + 1
    <2>1. oldest \in Nat /\ stream \in Nat /\ Base \in Nat /\ stream' \in Nat
      <3>1. oldest \in 1 .. latest + 1 /\ latest \in Nat
        BY <1>2
      <3>2. oldest \in Nat
        BY <3>1, SMT
      <3>3. stream \in Nat /\ Base \in Nat
        BY <1>2
      <3>4. stream' \in Nat
        BY <1>6
      <3> QED BY <3>2, <3>3, <3>4
    <2>2. Base <= stream /\ oldest <= stream + 1 /\ stream' > stream
      BY <1>3, <1>6
    <2> DEFINE b == Base
               t == stream'
    <2>3. b <= t /\ oldest <= t + 1
      <3> HIDE DEF b, t
      <3>1. b \in Nat /\ t \in Nat /\ oldest \in Nat /\ stream \in Nat
        BY <2>1 DEF b, t
      <3>2. b <= stream /\ oldest <= stream + 1 /\ t > stream
        BY <2>2 DEF b, t
      <3> QED BY <3>1, <3>2, SMT
    <2>4. stream' <= latest
      BY <1>6, SMT
    <2> QED BY <2>3, <2>4
  <1>16. OnTheWay'
    <2>1. \A m \in unheard' : \A i \in Base + 1 .. m.seq : Sent(i)' \in unheard'
      BY <1>1, <1>13 DEF Sent
    <2>2. \A i \in Base + 1 .. stream' : Sent(i)' \in unheard'
      BY <1>1, <1>11 DEF Sent
    <2> QED BY <1>1, <1>10, <1>12, <1>14, <1>15, <2>1, <2>2 DEF OnTheWay
  <1> QED BY <1>8, <1>9, <1>16

LEMMA EndStreamStep == IInv /\ EndStream => IInv'
  <1> SUFFICES ASSUME IInv, EndStream PROVE IInv'
    OBVIOUS
  <1> USE DEF IInv
  <1>1. /\ stream' = Closed
        /\ UNCHANGED <<made, log, oldest, backup, notice, unheard, after, afterId, queue, open, reported>>
    BY DEF EndStream, engine, reader
  <1>2. TypeOK' /\ Distinct' /\ Copied' /\ Shut' /\ (Placed \/ Strange)'
    BY <1>1, PositionKept DEF TypeOK, Distinct, Copied, Shut, Strange
  <1>3. OnTheWay'
    BY <1>1, PositionKept DEF OnTheWay, Base, Sent
  <1> QED BY <1>2, <1>3

-----------------------------------------------------------------------------
(* monokulo. *)

LEMMA HearLostStep == IInv /\ HearLost => IInv'
  <1> SUFFICES ASSUME IInv, HearLost PROVE IInv'
    OBVIOUS
  <1> USE DEF IInv
  <1>1. /\ open /\ notice # Closed /\ after' = notice /\ afterId' = 0 /\ notice' = Closed
        /\ reported' = reported \cup {log[i] : i \in 1..notice}
        /\ UNCHANGED <<made, log, oldest, backup, stream, unheard, queue, open>>
    BY DEF HearLost, engine
  <1>2. /\ log \in Seq(1..made) /\ made \in Nat /\ latest \in Nat /\ notice \in Nat /\ notice <= latest
    BY <1>1, SMT DEF TypeOK, OnTheWay
  <1>5. TypeOK'
    BY InvariantTypes, ReaderTyped DEF Typed
  <1>6. Placed'
    BY <1>1, <1>2 DEF Placed, Told
  <1>7. Base' = Base
    BY <1>1 DEF Base
  <1>8. notice' <= latest'
    BY <1>1, <1>2, SMT
  <1>9. OnTheWay'
    BY <1>1, <1>6, <1>7, <1>8 DEF OnTheWay, Sent
  <1> QED BY <1>1, <1>5, <1>6, <1>9 DEF Distinct, Copied, Shut

\* The event heard is the one after the position.
LEMMA NextIsHeard ==
    ASSUME IInv, open, notice = Closed,
           NEW m \in unheard, \A other \in unheard : m.seq <= other.seq
    PROVE  /\ m.seq = after + 1 /\ m.event = log[m.seq] /\ m.seq \in 1..latest /\ m.event \in 1..made
           /\ \A other \in unheard : other # m => other.seq > m.seq
  <1> USE DEF IInv
  <1>1. /\ Base = after /\ after \in Nat /\ latest \in Nat
        /\ \A other \in unheard : other \in [seq : 1..latest, event : 1..made]
    BY SMT DEF Base, TypeOK
  <1>2. /\ m.seq > after /\ m.event = log[m.seq] /\ \A i \in after + 1 .. m.seq : Sent(i) \in unheard
    BY <1>1 DEF OnTheWay
  <1>3. m.seq \in 1..latest /\ m.event \in 1..made
    BY <1>1
  <1>4. after + 1 \in after + 1 .. m.seq
    BY <1>1, <1>2, <1>3, SMT
  <1>5. m.seq <= after + 1
    BY <1>2, <1>4 DEF Sent
  <1>6. m.seq = after + 1
    BY <1>1, <1>2, <1>3, <1>5, SMT
  <1>7. ASSUME NEW other \in unheard, other # m
        PROVE  other.seq > m.seq
    <2>1. other.event = log[other.seq] /\ other \in [seq : 1..latest, event : 1..made]
      BY <1>1 DEF OnTheWay
    <2>2. other.seq # m.seq
      BY <1>1, <1>2, <1>7, <2>1, SMT
    <2> QED BY <1>3, <2>1, <2>2, SMT
  <1> QED BY <1>2, <1>3, <1>6, <1>7

LEMMA HearEventStep == IInv /\ HearEvent => IInv'
  <1> SUFFICES ASSUME IInv, HearEvent PROVE IInv'
    OBVIOUS
  <1> USE DEF IInv
  <1>1. PICK m \in unheard :
          /\ \A other \in unheard : m.seq <= other.seq
          /\ unheard' = unheard \ {m}
          /\ IF m.seq <= after THEN UNCHANGED <<after, afterId, queue, reported>>
             ELSE /\ after' = m.seq
                  /\ IF m.event \in Unreadable
                     THEN afterId' = 0 /\ reported' = reported \cup {m.event} /\ UNCHANGED queue
                     ELSE afterId' = m.event /\ queue' = Queued(m.event) /\ UNCHANGED reported
    BY DEF HearEvent
  <1>2. open /\ notice = Closed /\ UNCHANGED <<made, log, oldest, backup, stream, notice, open>>
    BY DEF HearEvent, engine
  <1>3. /\ m.seq = after + 1 /\ m.event = log[m.seq] /\ m.seq \in 1..latest /\ m.event \in 1..made
        /\ \A other \in unheard : other # m => other.seq > m.seq
    BY <1>1, <1>2, NextIsHeard
  <1>4. /\ made \in Nat /\ latest \in Nat /\ after \in Nat /\ queue \in Seq(1..made)
        /\ log \in Seq(1..made) /\ reported \subseteq 1..made
        /\ \A other \in unheard : other \in [seq : 1..latest, event : 1..made]
    BY SMT DEF TypeOK
  <1>5. ~(m.seq <= after) /\ after' = m.seq
    BY <1>1, <1>3, <1>4, SMT
  <1>6. /\ afterId' \in 0..made /\ reported' \subseteq 1..made /\ queue' \in Seq(1..made)
        /\ Range(queue) \subseteq Range(queue') /\ reported \subseteq reported'
        /\ m.event \in Range(queue') \/ m.event \in reported'
        /\ afterId' # 0 => afterId' = m.event
    <2>1. CASE m.event \in Unreadable
      <3>1. afterId' = 0 /\ reported' = reported \cup {m.event} /\ queue' = queue
        BY <1>1, <1>5, <2>1
      <3>2. 0 \in 0..made
        BY <1>4, SMT
      <3> QED BY <1>3, <1>4, <3>1, <3>2
    <2>2. CASE m.event \notin Unreadable
      <3>1. afterId' = m.event /\ queue' = Queued(m.event) /\ reported' = reported
        BY <1>1, <1>5, <2>2
      <3>2. m.event \in 0..made
        BY <1>3, <1>4, SMT
      <3>3. CASE m.event \in Range(queue)
        BY <1>4, <3>1, <3>2, <3>3 DEF Queued
      <3>4. CASE m.event \notin Range(queue)
        <4>1. queue' = Append(queue, m.event)
          BY <3>1, <3>4 DEF Queued
        <4>2. queue' \in Seq(1..made)
          BY <1>3, <1>4, <4>1, SMT
        <4>3. Range(queue') = Range(queue) \cup {m.event}
          BY <1>4, <4>1, Appended
        <4> QED BY <1>4, <3>1, <3>2, <4>2, <4>3
      <3> QED BY <3>3, <3>4
    <2> QED BY <2>1, <2>2
  <1>7. TypeOK'
    BY InvariantTypes, ReaderTyped DEF Typed
  <1>8. Placed'
    <2>1. Placed
      BY <1>2 DEF OnTheWay
    <2>2. \A i \in 1..after' : i \in 1..after \/ i = m.seq
      BY <1>3, <1>4, <1>5, SMT
    <2>3. \A i \in 1..after' : Told(i)'
      BY <1>2, <1>3, <1>6, <2>1, <2>2 DEF Placed, Told
    <2>4. after' <= latest' /\ (afterId' # 0 => after' \in 1..latest' /\ log'[after'] = afterId')
      BY <1>2, <1>3, <1>4, <1>5, <1>6, SMT
    <2> QED BY <2>3, <2>4 DEF Placed
  <1>9. OnTheWay'
    <2>1. Base = after /\ Base' = after + 1
      BY <1>2, <1>3, <1>5 DEF Base
    <2>2. \A i \in after + 2 .. latest : Sent(i)' = Sent(i) /\ Sent(i) # m
      <3>1. \A i \in after + 2 .. latest : i # m.seq
        BY <1>3, <1>4, SMT
      <3> QED BY <1>2, <3>1 DEF Sent
    <2>3. ASSUME NEW other \in unheard'
          PROVE  /\ other.seq > Base' /\ other.event = log'[other.seq]
                 /\ \A i \in Base' + 1 .. other.seq : Sent(i)' \in unheard'
      <3>1. /\ other \in unheard /\ other # m /\ other.seq \in 1..latest /\ other.seq > m.seq
        BY <1>1, <1>3, <1>4
      <3>2. other.event = log[other.seq] /\ \A i \in after + 1 .. other.seq : Sent(i) \in unheard
        BY <1>2, <2>1, <3>1 DEF OnTheWay
      <3>3. \A i \in after + 2 .. other.seq : i \in after + 1 .. other.seq /\ i \in after + 2 .. latest
        BY <1>4, <3>1, SMT
      <3>4. \A i \in after + 2 .. other.seq : Sent(i)' \in unheard'
        BY <1>1, <2>2, <3>2, <3>3
      <3>5. Base' + 1 = after + 2
        BY <1>4, <2>1, SMT
      <3> QED BY <1>2, <1>3, <2>1, <3>1, <3>2, <3>4, <3>5
    <2>4. ASSUME stream # Closed
          PROVE  /\ Base' <= stream /\ stream <= latest /\ oldest <= stream + 1
                 /\ \A other \in unheard' : other.seq <= stream
                 /\ \A i \in Base' + 1 .. stream : Sent(i)' \in unheard'
      <3>1. /\ stream <= latest /\ oldest <= stream + 1
            /\ \A other \in unheard : other.seq <= stream
            /\ \A i \in after + 1 .. stream : Sent(i) \in unheard
        BY <1>2, <2>1, <2>4 DEF OnTheWay
      <3>2. stream \in Nat
        BY <2>4 DEF TypeOK
      <3>3. Base' <= stream
        BY <1>3, <2>1, <3>1
      <3>4. \A i \in after + 2 .. stream : i \in after + 1 .. stream /\ i \in after + 2 .. latest
        BY <1>4, <3>1, <3>2, SMT
      <3>5. \A i \in after + 2 .. stream : Sent(i)' \in unheard'
        BY <1>1, <2>2, <3>1, <3>4
      <3>6. Base' + 1 = after + 2
        BY <1>4, <2>1, SMT
      <3> QED BY <1>1, <3>1, <3>3, <3>5, <3>6
    <2>5. notice' <= latest'
      BY <1>2 DEF OnTheWay
    <2> QED BY <1>2, <1>8, <2>3, <2>4, <2>5 DEF OnTheWay
  <1> QED BY <1>2, <1>7, <1>8, <1>9 DEF Distinct, Copied, Shut

LEMMA DisconnectStep == IInv /\ Disconnect => IInv'
  <1> SUFFICES ASSUME IInv, Disconnect PROVE IInv'
    OBVIOUS
  <1> USE DEF IInv
  <1>1. /\ ~open' /\ open' \in BOOLEAN /\ stream' = Closed /\ notice' = Closed /\ unheard' = {}
        /\ UNCHANGED <<made, log, oldest, backup, after, afterId, queue, reported>>
    BY DEF Disconnect, LeftOver, engine
  <1>2. TypeOK' /\ Distinct' /\ Copied' /\ Shut' /\ OnTheWay' /\ (Placed \/ Strange)'
    BY <1>1, PositionKept DEF TypeOK, Distinct, Copied, Shut, OnTheWay, Strange
  <1> QED BY <1>2

-----------------------------------------------------------------------------
(* The theorems. *)

LEMMA Inductive ==
    ASSUME ~PrunedUnread, IInv, [Next]_vars
    PROVE  IInv'
  <1>1. CASE AppendEvent BY <1>1, AppendStep
  <1>2. CASE BackUp BY <1>2, BackUpStep
  <1>3. CASE Restore BY <1>3, RestoreStep
  <1>4. CASE \E n \in 1..MaxEvents + 1 : Prune(n) BY <1>4, PruneStep
  <1>5. CASE Open BY <1>5, OpenStep
  <1>6. CASE ReadBatch BY <1>6, ReadBatchStep
  <1>7. CASE EndStream BY <1>7, EndStreamStep
  <1>8. CASE HearLost BY <1>8, HearLostStep
  <1>9. CASE HearEvent BY <1>9, HearEventStep
  <1>10. CASE Disconnect BY <1>10, DisconnectStep
  <1>11. CASE UNCHANGED vars
    <2>1. UNCHANGED <<made, log, oldest, backup, stream, notice, unheard, after, afterId, queue, open, reported>>
      BY <1>11 DEF vars, engine, line, reader
    <2> QED BY <2>1, PositionKept
            DEF IInv, TypeOK, Distinct, Copied, Shut, Strange, OnTheWay, Base, Sent
  <1> QED BY <1>1, <1>2, <1>3, <1>4, <1>5, <1>6, <1>7, <1>8, <1>9, <1>10, <1>11 DEF Next

\* If upkeep prunes only what open streams have read, every state is of the
\* invariant's (order_events, handle).
THEOREM FeedInvariant ==
    ASSUME ~PrunedUnread
    PROVE  Spec => []IInv
  <1>1. Init => IInv BY InitInvariant
  <1>2. IInv /\ [Next]_vars => IInv' BY Inductive
  <1> QED BY <1>1, <1>2, PTL DEF Spec

\* The log, the line and the position are of their types, whatever upkeep prunes:
\* what was sent and not heard is of the log there is, no seq beyond its newest,
\* no id one that wasn't given out.
THEOREM FeedTypes == Spec => []TypeOK
  <1>1. Init => Typed BY TypedStarts
  <1>2. Typed /\ [Next]_vars => Typed' BY TypedStep
  <1>3. Typed => TypeOK BY DEF Typed
  <1> QED BY <1>1, <1>2, <1>3, PTL DEF Spec

\* No event is passed over in silence, for any number of events, batches,
\* restores and broken connections (ResumePoint, queue_order_event).
THEOREM FeedLosesNothingSilently ==
    ASSUME ~PrunedUnread
    PROVE  Spec => []NoSilentLoss
  <1>1. IInv => NoSilentLoss
    <2> SUFFICES ASSUME IInv, open, notice = Closed, NEW i \in 1..after
                 PROVE  i <= latest /\ Told(i)
      BY DEF NoSilentLoss, Told
    <2>1. Placed /\ after \in Nat /\ latest \in Nat
      BY SMT DEF IInv, OnTheWay, TypeOK
    <2> QED BY <2>1, SMT DEF Placed
  <1> QED BY <1>1, FeedInvariant, PTL

-----------------------------------------------------------------------------
(* The refinement. *)

\* Every step of the feed is one of the promise's, or none.
LEMMA StepKeepsPromise ==
    ASSUME Typed, [Next]_vars
    PROVE  [Promise!Next]_(Promise!vars)
  <1>1. /\ made \in Nat /\ log \in Seq(1..made) /\ queue \in Seq(1..made) /\ reported \subseteq 1..made
        /\ latest \in Nat
    BY SMT DEF Typed, TypeOK
  <1>2. Range(log) \subseteq 1..made /\ Range(queue) \subseteq 1..made
    <2>1. DOMAIN log = 1..latest /\ DOMAIN queue = 1..Len(queue)
      BY <1>1, SMT
    <2> QED BY <1>1, <2>1, SMT DEF Range
  <1>3. Waiting \subseteq 1..made
    BY <1>2 DEF Waiting
  <1>4. ASSUME UNCHANGED <<made, log, queue, reported>>
        PROVE  UNCHANGED Promise!vars
    BY <1>4 DEF Promise!vars, Waiting
  <1>5. CASE AppendEvent
    <2>1. made' = made + 1 /\ log' = Append(log, made + 1) /\ UNCHANGED <<queue, reported>>
      BY <1>5 DEF AppendEvent, line, reader
    <2>2. Range(log') = Range(log) \cup {made + 1}
      BY <1>1, <2>1, Appended
    <2>3. made + 1 \notin 1..made
      BY <1>1, SMT
    <2>4. Waiting' = Waiting \cup {made + 1}
      BY <1>1, <1>2, <2>1, <2>2, <2>3 DEF Waiting
    <2> QED BY <2>1, <2>4 DEF Promise!Next, Promise!Make
  <1>6. CASE Restore
    <2>1. /\ log' = SubSeq(log, 1, backup.latest) /\ UNCHANGED <<made, queue, reported>>
          /\ backup.latest \in 0..latest
      <3>1. backup.latest \in Nat /\ backup.latest < latest
        BY <1>6 DEF Typed, TypeOK, Restore
      <3> QED BY <1>1, <1>6, <3>1, SMT DEF Restore, line, reader
    <2>2. Range(log') \subseteq Range(log)
      <3>1. Range(log') = {log[i] : i \in 1..backup.latest}
        BY <1>1, <2>1, Beginning
      <3>2. \A i \in 1..backup.latest : i \in 1..latest
        BY <1>1, <2>1, SMT
      <3> QED BY <1>1, <3>1, <3>2, Places
    <2>3. Waiting' \subseteq Waiting
      BY <2>1, <2>2 DEF Waiting
    <2> DEFINE undone == Waiting \ Waiting'
    <2>4. undone \in SUBSET (1..made) /\ undone \subseteq Waiting /\ Waiting' = Waiting \ undone
      BY <1>3, <2>3
    <2>5. Promise!Undo(undone)
      BY <2>1, <2>4 DEF Promise!Undo
    <2> QED BY <2>4, <2>5 DEF Promise!Next
  <1>7. CASE HearLost
    <2> DEFINE lost == {log[i] : i \in 1..notice}
    <2>1. reported' = reported \cup lost /\ UNCHANGED <<made, log, queue>>
      BY <1>7 DEF HearLost, engine
    <2>2. lost \in SUBSET (1..made)
      <3>1. notice \in Nat /\ notice <= latest
        BY <1>7, SMT DEF HearLost, Typed, TypeOK
      <3>2. \A i \in 1..notice : i \in 1..latest
        BY <1>1, <3>1, SMT
      <3> QED BY <1>1, <3>2, Places
    <2>3. Waiting' = Waiting \ lost
      BY <2>1 DEF Waiting
    <2>4. Promise!Report(lost)
      BY <2>1, <2>3 DEF Promise!Report
    <2> QED BY <2>2, <2>4 DEF Promise!Next
  <1>8. CASE HearEvent
    <2>1. PICK m \in unheard :
            IF m.seq <= after THEN UNCHANGED <<after, afterId, queue, reported>>
            ELSE IF m.event \in Unreadable
                 THEN reported' = reported \cup {m.event} /\ UNCHANGED queue
                 ELSE queue' = Queued(m.event) /\ UNCHANGED reported
      BY <1>8 DEF HearEvent
    <2>2. UNCHANGED <<made, log>> /\ m.event \in 1..made
      BY <1>8, <2>1 DEF HearEvent, engine, Typed, TypeOK
    <2>3. CASE UNCHANGED <<queue, reported>>
      BY <1>4, <2>2, <2>3
    <2>4. CASE reported' = reported \cup {m.event} /\ UNCHANGED queue
      <3>1. Waiting' = Waiting \ {m.event}
        BY <2>2, <2>4 DEF Waiting
      <3>2. Promise!Report({m.event})
        BY <2>2, <2>4, <3>1 DEF Promise!Report
      <3>3. {m.event} \in SUBSET (1..made)
        BY <2>2
      <3> QED BY <3>2, <3>3 DEF Promise!Next
    <2>5. CASE queue' = Queued(m.event) /\ UNCHANGED reported /\ m.event \in Range(queue)
      <3>1. queue' = queue
        BY <2>5 DEF Queued
      <3> QED BY <1>4, <2>2, <2>5, <3>1
    <2>6. CASE queue' = Queued(m.event) /\ UNCHANGED reported /\ m.event \notin Range(queue)
      <3>1. queue' = Append(queue, m.event)
        BY <2>6 DEF Queued
      <3>2. Range(queue') = Range(queue) \cup {m.event}
        BY <1>1, <3>1, Appended
      <3>3. Waiting' = Waiting \ {m.event}
        BY <2>2, <2>6, <3>2 DEF Waiting
      <3>4. Promise!Queue(m.event)
        BY <2>2, <2>6, <3>1, <3>3 DEF Promise!Queue, Promise!Range, Range
      <3> QED BY <2>2, <3>4 DEF Promise!Next
    <2> QED BY <2>1, <2>3, <2>4, <2>5, <2>6
  <1>9. CASE BackUp \/ (\E n \in 1..MaxEvents + 1 : Prune(n)) \/ EndStream \/ ReadBatch
             \/ Open \/ Disconnect \/ UNCHANGED vars
    <2>1. UNCHANGED <<made, log, queue, reported>>
      BY <1>9 DEF BackUp, Prune, EndStream, ReadBatch, Open, Disconnect, vars, engine, line, reader
    <2> QED BY <1>4, <2>1
  <1> QED BY <1>5, <1>6, <1>7, <1>8, <1>9 DEF Next

\* monokulo's reading of the log implements what the events promise, whatever
\* upkeep prunes: each is queued at most once or reported, and stops waiting in no
\* other way but with the change it announces (queue_order_event, ResumePoint).
\* An event that is pruned before a stream has read it may wait for ever.
THEOREM FeedKeepsPromise == Spec => KeepsPromise
  <1>1. Init => Promise!Init
    <2> SUFFICES ASSUME Init PROVE Promise!Init
      OBVIOUS
    <2>1. Range(<<>>) = {}
      BY SMT DEF Range
    <2>2. made = 0 /\ log = <<>> /\ queue = <<>> /\ reported = {}
      BY DEF Init
    <2>3. Waiting = {}
      BY <2>1, <2>2 DEF Waiting
    <2> QED BY <2>2, <2>3 DEF Promise!Init
  <1>2. Typed /\ [Next]_vars => [Promise!Next]_(Promise!vars)
    BY StepKeepsPromise
  <1>3. Init => Typed BY TypedStarts
  <1>4. Typed /\ [Next]_vars => Typed' BY TypedStep
  <1> QED BY <1>1, <1>2, <1>3, <1>4, PTL DEF Spec, KeepsPromise, Promise!Spec
=============================================================================
