--------------------------- MODULE RuntimesProofs ---------------------------
(***************************************************************************)
(* Bytecode that can execute keeps its runtime and its literals, for any   *)
(* programs, addresses and call depth.  Nothing counts references: an      *)
(* address is reused only when no tree of functions in use reaches it, so  *)
(* what an entry was made for is still there.                              *)
(***************************************************************************)
EXTENDS Runtimes, TLAPS

(* The bytecode that something other than another bytecode holds *)
Holders == programs \cup Entered \cup Running \cup Making \cup {closures[o].bc : o \in Closures}

(* An entry is the runtime of the function at its address. *)
EntryOK(a) ==
    /\ code[a] # None /\ code[a].proto = entries[a].proto
    /\ literals[entries[a].rt] = Range(Literals[entries[a].proto])
    /\ literals[entries[a].rt] \subseteq strings

(* While literals are interned none is lost and the address has no entry. *)
InterningOK ==
    op.phase = "intern" =>
        /\ entries[op.bc] = None
        /\ op.done \cup Range(op.left) = Range(Literals[code[op.bc].proto])
        /\ op.done \subseteq strings

Inv ==
    /\ TypeOK
    /\ Closed(Written) /\ Holders \subseteq Written
    /\ \A a \in Entered : EntryOK(a)
    /\ \A u \in InUse : entries[u.bc] # None /\ entries[u.bc].rt = u.rt
    /\ InterningOK
-----------------------------------------------------------------------------
LEMMA HeadAndTail ==
    ASSUME NEW S, NEW q \in Seq(S), q # <<>>
    PROVE  Head(q) \in S /\ Tail(q) \in Seq(S) /\ {Head(q)} \cup Range(Tail(q)) = Range(q)
  <1>1. DOMAIN q = 1 .. Len(q) /\ DOMAIN Tail(q) = 1 .. Len(q) - 1 /\ Len(q) \in Nat \ {0}
    OBVIOUS
  <1>2. q[1] = Head(q) /\ \A i \in 1 .. Len(q) - 1 : Tail(q)[i] = q[i + 1]
    OBVIOUS
  <1>3. \A i \in 1 .. Len(q) : i = 1 \/ (i - 1 \in 1 .. Len(q) - 1 /\ q[i] = Tail(q)[i - 1])
    BY <1>1, <1>2
  <1>4. 1 \in 1 .. Len(q) /\ \A i \in 1 .. Len(q) - 1 : i + 1 \in 1 .. Len(q)
    BY <1>1
  <1>5. Head(q) \in S /\ Tail(q) \in Seq(S)
    OBVIOUS
  <1>6. Range(Tail(q)) \subseteq Range(q) /\ Head(q) \in Range(q)
    BY <1>1, <1>2, <1>4 DEF Range
  <1>7. ASSUME NEW i \in 1 .. Len(q)
        PROVE  q[i] \in {Head(q)} \cup Range(Tail(q))
    <2>1. CASE i = 1
      BY <2>1, <1>2
    <2>2. CASE i # 1
      BY <2>2, <1>1, <1>3, Zenon DEF Range
    <2> QED
      BY <2>1, <2>2
  <1>8. Range(q) \subseteq {Head(q)} \cup Range(Tail(q))
    BY <1>1, <1>7 DEF Range
  <1> QED
    BY <1>5, <1>6, <1>8

LEMMA TreesAreClosed ==
    ASSUME Closed(Written), NEW S \in SUBSET Written
    PROVE  S \subseteq Trees(S) /\ Trees(S) \subseteq Written /\ Closed(Trees(S))
  BY DEF Trees, Closed

LEMMA TreesGrow ==
    ASSUME NEW S, NEW T, S \subseteq T
    PROVE  Trees(S) \subseteq Trees(T)
  BY DEF Trees

LEMMA FamilyIsClosed ==
    ASSUME NEW main \in Mains
    PROVE  /\ main \in Family(main) /\ Family(main) \subseteq Protos
           /\ \A p \in Family(main) : Kids[p] \subseteq Family(main)
  BY FunctionsAreNested DEF Family

LEMMA Phases ==
    ASSUME TypeOK
    PROVE  /\ op.phase \in {"idle", "intern", "alloc"}
           /\ op.phase = "idle" <=> op = Idle
           /\ op.phase = "intern" => op \in [phase : {"intern"}, bc : Addrs, done : SUBSET Strings, left : Seq(Strings)]
           /\ op.phase = "alloc" => op \in [phase : {"alloc"}, bc : Addrs, rt : Runtimes]
  BY DEF TypeOK, Idle

LEMMA UseTypes ==
    ASSUME TypeOK
    PROVE  InUse \subseteq Pairs
  <1>1. \A i \in DOMAIN frames : frames[i] \in Pairs
    BY DEF TypeOK
  <1>2. \A o \in Closures : closures[o] \in Pairs
    BY DEF TypeOK, Closures
  <1>3. op.phase = "alloc" => [bc |-> op.bc, rt |-> op.rt] \in Pairs
    BY Phases DEF Pairs
  <1> QED
    BY <1>1, <1>2, <1>3 DEF InUse

LEMMA InitInv == Init => Inv
  <1> SUFFICES ASSUME Init PROVE Inv
    OBVIOUS
  <1>1. TypeOK
    BY FramesAreBounded DEF Init, TypeOK, Written, Closures
  <1>2. Closed(Written) /\ Holders = {} /\ Entered = {} /\ InUse = {}
    BY DEF Init, Closed, Written, Holders, Entered, Running, Making, Closures, InUse, Idle
  <1> QED
    BY <1>1, <1>2 DEF Inv, InterningOK, Init, Idle

LEMMA CompileStep ==
    ASSUME Inv, Compile
    PROVE  Inv'
  <1>1. PICK main \in Mains : \E place \in [Family(main) -> Addrs \ Held] :
                 /\ \A p, q \in Family(main) : place[p] = place[q] => p = q
                 /\ code' = [a \in Addrs |->
                        IF \E p \in Family(main) : place[p] = a
                        THEN LET p == CHOOSE p \in Family(main) : place[p] = a
                             IN  [proto |-> p, nested |-> {place[k] : k \in Kids[p]}]
                        ELSE IF a \in Held THEN code[a] ELSE None]
                 /\ programs' = programs \cup {place[main]}
    BY Zenon DEF Compile
  <1>2. PICK place \in [Family(main) -> Addrs \ Held] :
                 /\ \A p, q \in Family(main) : place[p] = place[q] => p = q
                 /\ code' = [a \in Addrs |->
                        IF \E p \in Family(main) : place[p] = a
                        THEN LET p == CHOOSE p \in Family(main) : place[p] = a
                             IN  [proto |-> p, nested |-> {place[k] : k \in Kids[p]}]
                        ELSE IF a \in Held THEN code[a] ELSE None]
                 /\ programs' = programs \cup {place[main]}
    BY <1>1, Zenon
  <1>3. UNCHANGED <<entries, literals, closures, rooted, strings, frames, op>>
    BY DEF Compile
  <1>4. /\ Held \subseteq Written /\ Holders \subseteq Held
        /\ \A a \in Held : code[a].nested \subseteq Held
    BY TreesAreClosed, Zenon DEF Inv, Held, Holders, Closed
  <1>5. \A a \in Held : code'[a] = code[a] /\ a \in Addrs
    BY <1>2, <1>4 DEF Written
  <1>6. \A p \in Family(main) : code'[place[p]] = [proto |-> p, nested |-> {place[k] : k \in Kids[p]}]
    <2> SUFFICES ASSUME NEW p \in Family(main)
                 PROVE  code'[place[p]] = [proto |-> p, nested |-> {place[k] : k \in Kids[p]}]
      OBVIOUS
    <2>1. (CHOOSE q \in Family(main) : place[q] = place[p]) = p
      BY <1>2
    <2>2. place[p] \in Addrs
      OBVIOUS
    <2> QED
      BY <1>2, <2>1, <2>2, Zenon
  <1>7. \A a \in Addrs : a \notin Held /\ (~ \E p \in Family(main) : place[p] = a) => code'[a] = None
    BY <1>2
  <1>8. \A p \in Family(main) : code'[place[p]] \in Code
    <2> SUFFICES ASSUME NEW p \in Family(main)
                 PROVE  [proto |-> p, nested |-> {place[k] : k \in Kids[p]}] \in Code
      BY <1>6, Zenon
    <2>1. p \in Protos /\ Kids[p] \subseteq Family(main)
      BY FamilyIsClosed
    <2>2. {place[k] : k \in Kids[p]} \in SUBSET Addrs
      BY <2>1
    <2> QED
      BY <2>1, <2>2 DEF Code
  <1>9. code' \in [Addrs -> Code \cup {None}]
    <2>1. \A a \in Held : code[a] \in Code \cup {None}
      BY <1>5 DEF Inv, TypeOK
    <2>2. \A a \in Addrs : code'[a] \in Code \cup {None}
      BY <2>1, <1>5, <1>7, <1>8
    <2>3. code' = [a \in Addrs |-> code'[a]]
      BY <1>2
    <2> QED
      BY <2>2, <2>3
  <1>10. Written' = Held \cup {place[p] : p \in Family(main)}
    <2>1. \A a \in Held : code'[a] # None
      BY <1>4, <1>5 DEF Written
    <2>2. \A p \in Family(main) : code'[place[p]] # None /\ place[p] \in Addrs
      BY <1>8, NoneIsNoValue
    <2> QED
      BY <2>1, <2>2, <1>5, <1>7 DEF Written
  <1>11. Closed(Written)'
    <2>1. \A a \in Held : code'[a].nested \subseteq Written'
      BY <1>4, <1>5, <1>10
    <2>2. \A p \in Family(main) : code'[place[p]].nested \subseteq Written'
      <3> SUFFICES ASSUME NEW p \in Family(main)
                   PROVE  code'[place[p]].nested \subseteq Written'
        OBVIOUS
      <3>1. Kids[p] \subseteq Family(main)
        BY FamilyIsClosed
      <3> DEFINE inner == {place[k] : k \in Kids[p]}
      <3>2. code'[place[p]] = [proto |-> p, nested |-> inner]
        BY <1>6
      <3>3. inner \subseteq Written'
        BY <3>1, <1>10
      <3> HIDE DEF inner
      <3> QED
        BY <3>2, <3>3
    <2> QED
      BY <2>1, <2>2, <1>10 DEF Closed
  <1>12. programs' \subseteq Written' /\ Holders' \subseteq Written'
    BY <1>2, <1>3, <1>4, <1>10, FamilyIsClosed DEF Holders, Entered, Running, Making, Closures
  <1>13. TypeOK'
    BY <1>3, <1>9, <1>12 DEF Inv, TypeOK, Closures
  <1>14. Entered' = Entered /\ InUse' = InUse
    BY <1>3 DEF Entered, InUse, Closures
  <1>15. \A a \in Entered : EntryOK(a)'
    <2>1. Entered \subseteq Held
      BY <1>4 DEF Holders
    <2> QED
      BY <2>1, <1>3, <1>5 DEF Inv, EntryOK
  <1>16. InterningOK'
    <2>1. op.phase = "intern" => op.bc \in Held
      BY <1>4 DEF Holders, Making, Idle
    <2> QED
      BY <2>1, <1>3, <1>5 DEF Inv, InterningOK
  <1> QED
    BY <1>3, <1>11, <1>12, <1>13, <1>14, <1>15, <1>16 DEF Inv

(* Steps that leave the bytecode and what is entered alone *)
LEMMA QuietStep ==
    ASSUME Inv, UNCHANGED <<code, entries, literals>>, strings \subseteq strings',
           TypeOK', Holders' \subseteq Written, InterningOK',
           \A u \in InUse' : u \in InUse \/ (entries[u.bc] # None /\ entries[u.bc].rt = u.rt)
    PROVE  Inv'
  <1>1. Written' = Written /\ Entered' = Entered
    BY DEF Written, Entered
  <1>2. Closed(Written)'
    BY <1>1 DEF Inv, Closed
  <1>3. \A a \in Entered' : EntryOK(a)'
    BY <1>1 DEF Inv, EntryOK
  <1>4. \A u \in InUse' : (entries[u.bc] # None /\ entries[u.bc].rt = u.rt)'
    BY DEF Inv
  <1> QED
    BY <1>1, <1>2, <1>3, <1>4 DEF Inv

LEMMA DropProgramStep ==
    ASSUME Inv, DropProgram
    PROVE  Inv'
  <1>1. PICK a \in programs : programs' = programs \ {a}
    BY DEF DropProgram
  <1>2. UNCHANGED <<code, entries, literals, closures, rooted, strings, frames, op>>
    BY DEF DropProgram
  <1>3. TypeOK'
    BY <1>1, <1>2 DEF Inv, TypeOK, Written, Closures
  <1>4. Holders' \subseteq Written /\ InUse' = InUse /\ InterningOK'
    BY <1>1, <1>2 DEF Inv, Holders, Entered, Running, Making, Closures, InUse, InterningOK
  <1> QED
    BY <1>2, <1>3, <1>4, QuietStep

LEMMA BeginClosureStep ==
    ASSUME Inv, BeginClosure
    PROVE  Inv'
  <1>1. PICK a \in Closable :
          op' = IF entries[a] # None
                THEN [phase |-> "alloc", bc |-> a, rt |-> entries[a].rt]
                ELSE [phase |-> "intern", bc |-> a, done |-> {},
                      left |-> Literals[code[a].proto]]
    BY Zenon DEF BeginClosure
  <1>2. op = Idle /\ UNCHANGED <<code, programs, entries, literals, closures, rooted, strings, frames>>
    BY DEF BeginClosure
  <1>3. a \in Written /\ a \in Addrs /\ code[a] \in Code
    <2>1. CASE a \in programs
      BY <2>1 DEF Inv, TypeOK, Written
    <2>2. CASE a \notin programs
      <3>1. frames # <<>> /\ a \in code[frames[Len(frames)].bc].nested
        BY <2>2 DEF Closable
      <3>2. Len(frames) \in DOMAIN frames
        BY <3>1 DEF Inv, TypeOK
      <3>3. frames[Len(frames)].bc \in Written
        BY <3>2 DEF Inv, Holders, Running
      <3> QED
        BY <3>1, <3>3 DEF Inv, Closed, Written, TypeOK
    <2> QED
      BY <2>1, <2>2
  <1>4. CASE entries[a] # None
    <2>1. entries[a] \in Entries
      BY <1>3, <1>4 DEF Inv, TypeOK
    <2>2. op' = [phase |-> "alloc", bc |-> a, rt |-> entries[a].rt]
      BY <1>1, <1>4
    <2>3. TypeOK'
      BY <1>2, <1>3, <2>1, <2>2 DEF Inv, TypeOK, Written, Closures, Entries
    <2>4. Holders' \subseteq Written
      BY <1>2, <1>3, <2>2 DEF Inv, Holders, Entered, Running, Making, Closures
    <2>5. InUse' = InUse \cup {[bc |-> a, rt |-> entries[a].rt]}
      BY <1>2, <2>2 DEF InUse, Closures, Idle
    <2>6. InterningOK'
      BY <2>2 DEF InterningOK
    <2> QED
      BY <1>2, <1>4, <2>3, <2>4, <2>5, <2>6, QuietStep
  <1>5. CASE entries[a] = None
    <2>2. op' = [phase |-> "intern", bc |-> a, done |-> {}, left |-> Literals[code[a].proto]]
      BY <1>1, <1>5
    <2>3. Literals[code[a].proto] \in Seq(Strings)
      BY <1>3, LiteralsAreListed DEF Code
    <2>4. TypeOK'
      BY <1>2, <1>3, <2>2, <2>3 DEF Inv, TypeOK, Written, Closures
    <2>5. Holders' \subseteq Written
      BY <1>2, <1>3, <2>2 DEF Inv, Holders, Entered, Running, Making, Closures
    <2>6. InUse' = InUse
      BY <1>2, <2>2 DEF InUse, Closures, Idle
    <2>7. InterningOK'
      BY <1>2, <1>5, <2>2 DEF InterningOK
    <2> QED
      BY <1>2, <2>4, <2>5, <2>6, <2>7, QuietStep
  <1> QED
    BY <1>4, <1>5

LEMMA InternLiteralStep ==
    ASSUME Inv, InternLiteral
    PROVE  Inv'
  <1> DEFINE l == Head(op.left)
  <1>1. /\ op.phase = "intern" /\ op.left # <<>> /\ strings' = strings \cup {l}
        /\ op' = [op EXCEPT !.done = @ \cup {l}, !.left = Tail(@)]
        /\ UNCHANGED <<code, programs, entries, literals, closures, rooted, frames>>
    BY DEF InternLiteral
  <1>2. op \in [phase : {"intern"}, bc : Addrs, done : SUBSET Strings, left : Seq(Strings)]
    BY <1>1, Phases DEF Inv
  <1>3. l \in Strings /\ Tail(op.left) \in Seq(Strings) /\ {l} \cup Range(Tail(op.left)) = Range(op.left)
    BY <1>1, <1>2, HeadAndTail
  <1> HIDE DEF l
  <1>4. /\ op' \in [phase : {"intern"}, bc : Addrs, done : SUBSET Strings, left : Seq(Strings)]
        /\ op'.phase = "intern" /\ op'.bc = op.bc /\ op'.done = op.done \cup {l} /\ op'.left = Tail(op.left)
    BY <1>1, <1>2, <1>3, Zenon
  <1>5. TypeOK'
    BY <1>1, <1>3, <1>4 DEF Inv, TypeOK, Written, Closures
  <1>6. Holders' \subseteq Written
    BY <1>1, <1>4 DEF Inv, Holders, Entered, Running, Making, Closures, Idle
  <1>7. InUse' = InUse
    BY <1>1, <1>4 DEF InUse, Closures
  <1>8. InterningOK'
    BY <1>1, <1>3, <1>4 DEF Inv, InterningOK
  <1> QED
    BY <1>1, <1>5, <1>6, <1>7, <1>8, QuietStep

LEMMA AllocClosureStep ==
    ASSUME Inv, AllocClosure
    PROVE  Inv'
  <1>1. PICK o \in Objs \ Closures :
          /\ closures' = [closures EXCEPT ![o] = [bc |-> op.bc, rt |-> op.rt]]
          /\ rooted' = rooted \cup {o}
    BY Zenon DEF AllocClosure
  <1>2. op.phase = "alloc" /\ op' = Idle /\ UNCHANGED <<code, programs, entries, literals, strings, frames>>
    BY DEF AllocClosure
  <1>3. op \in [phase : {"alloc"}, bc : Addrs, rt : Runtimes] /\ op # Idle
    BY <1>2, Phases DEF Inv
  <1>4. [bc |-> op.bc, rt |-> op.rt] \in Pairs /\ [bc |-> op.bc, rt |-> op.rt] # None
    BY <1>3, NoneIsNoValue DEF Pairs
  <1>5. Closures' = Closures \cup {o} /\ \A c \in Closures : closures'[c] = closures[c]
    BY <1>1, <1>4 DEF Closures, Inv, TypeOK
  <1>6. closures'[o] = [bc |-> op.bc, rt |-> op.rt]
    BY <1>1 DEF Inv, TypeOK
  <1>7. closures' \in [Objs -> Pairs \cup {None}]
    BY <1>1, <1>4 DEF Inv, TypeOK
  <1>8. TypeOK'
    BY <1>1, <1>2, <1>5, <1>7 DEF Inv, TypeOK, Written
  <1>9. Holders' \subseteq Written
    <2>1. op.bc \in Holders
      BY <1>3 DEF Holders, Making
    <2>2. {closures'[c].bc : c \in Closures'} = {closures[c].bc : c \in Closures} \cup {op.bc}
      BY <1>5, <1>6
    <2>3. Entered' = Entered /\ Running' = Running /\ Making' = {}
      BY <1>2 DEF Entered, Running, Making
    <2> QED
      BY <1>2, <2>1, <2>2, <2>3 DEF Inv, Holders
  <1>10. InUse' = InUse
    <2>1. {closures'[c] : c \in Closures'} = {closures[c] : c \in Closures} \cup {[bc |-> op.bc, rt |-> op.rt]}
      BY <1>5, <1>6
    <2> QED
      BY <1>2, <2>1 DEF InUse, Idle
  <1>11. InterningOK'
    BY <1>2 DEF InterningOK, Idle
  <1> QED
    BY <1>2, <1>8, <1>9, <1>10, <1>11, QuietStep


LEMMA EnterRuntimeStep ==
    ASSUME Inv, EnterRuntime
    PROVE  Inv'
  <1>1. PICK r \in Runtimes \ HeldRuntimes :
          /\ literals' = [literals EXCEPT ![r] = op.done]
          /\ entries' = [entries EXCEPT ![op.bc] = [proto |-> code[op.bc].proto, rt |-> r]]
          /\ op' = [phase |-> "alloc", bc |-> op.bc, rt |-> r]
    BY Zenon DEF EnterRuntime
  <1>2. op.phase = "intern" /\ op.left = <<>> /\ UNCHANGED <<code, programs, closures, rooted, strings, frames>>
    BY DEF EnterRuntime
  <1>3. op \in [phase : {"intern"}, bc : Addrs, done : SUBSET Strings, left : Seq(Strings)] /\ op # Idle
    BY <1>2, Phases DEF Inv
  <1>4. op.bc \in Written /\ code[op.bc] \in Code
    BY <1>3 DEF Inv, TypeOK, Holders, Making, Written
  <1> DEFINE e == [proto |-> code[op.bc].proto, rt |-> r]
  <1>5. e \in Entries /\ e # None
    BY <1>4, NoneIsNoValue DEF Entries, Code
  <1>6. entries[op.bc] = None /\ op.done = Range(Literals[code[op.bc].proto]) /\ op.done \subseteq strings
    <2>1. Range(op.left) = {}
      BY <1>2 DEF Range
    <2> QED
      BY <2>1, <1>2 DEF Inv, InterningOK
  <1>7. Entered' = Entered \cup {op.bc} /\ op.bc \notin Entered /\ entries'[op.bc] = e
    BY <1>1, <1>3, <1>5, <1>6 DEF Entered, Inv, TypeOK
  <1>8. \A a \in Entered : entries'[a] = entries[a] /\ entries[a].rt # r
    BY <1>1, <1>7 DEF Inv, TypeOK, HeldRuntimes, Entered
  <1>9. entries' \in [Addrs -> Entries \cup {None}] /\ literals' \in [Runtimes -> SUBSET Strings]
    BY <1>1, <1>3, <1>5 DEF Inv, TypeOK
  <1>10. op' \in [phase : {"alloc"}, bc : Addrs, rt : Runtimes]
    BY <1>1, <1>3
  <1>11. TypeOK'
    BY <1>2, <1>9, <1>10 DEF Inv, TypeOK, Written, Closures
  <1>12. Written' = Written /\ Closed(Written)'
    BY <1>2 DEF Inv, Written, Closed
  <1>13. Holders' \subseteq Written'
    BY <1>1, <1>2, <1>4, <1>7, <1>12 DEF Inv, Holders, Running, Making, Closures
  <1>14. \A a \in Entered : EntryOK(a)'
    <2> SUFFICES ASSUME NEW a \in Entered
                 PROVE  EntryOK(a)'
      OBVIOUS
    <2>1. EntryOK(a) /\ entries[a].rt \in Runtimes
      BY NoneIsNoValue DEF Inv, TypeOK, Entered, Entries
    <2>2. literals'[entries[a].rt] = literals[entries[a].rt]
      BY <1>1, <1>8, <2>1 DEF Inv, TypeOK
    <2> QED
      BY <1>2, <1>8, <2>1, <2>2 DEF EntryOK
  <1>15. EntryOK(op.bc)'
    <2>1. literals'[r] = op.done
      BY <1>1 DEF Inv, TypeOK
    <2>2. entries'[op.bc].rt = r /\ entries'[op.bc].proto = code[op.bc].proto /\ code[op.bc] # None
      BY <1>4, <1>7 DEF Written
    <2> QED
      BY <1>1, <1>2, <1>6, <2>1, <2>2 DEF EntryOK
  <1>16. InUse' = InUse \cup {[bc |-> op.bc, rt |-> r]}
    BY <1>1, <1>2 DEF InUse, Closures
  <1>17. \A u \in InUse' : (entries[u.bc] # None /\ entries[u.bc].rt = u.rt)'
    <2>1. \A u \in InUse : u.bc \in Entered
      BY UseTypes DEF Inv, Entered, Pairs
    <2> QED
      BY <2>1, <1>5, <1>7, <1>8, <1>16 DEF Inv
  <1>18. InterningOK'
    BY <1>1 DEF InterningOK
  <1>19. \A a \in Entered' : EntryOK(a)'
    BY <1>1, <1>7, <1>14, <1>15
  <1> QED
    BY <1>11, <1>12, <1>13, <1>17, <1>18, <1>19 DEF Inv

(* Call, Return, TailCall and DropRoot change the frames or the roots only. *)
LEMMA MutatorStep ==
    ASSUME Inv, UNCHANGED <<code, programs, entries, literals, closures, strings, op>>,
           rooted' \subseteq rooted, frames' \in Seq(Pairs), Len(frames') <= MaxFrames,
           \A i \in DOMAIN frames' : frames'[i] \in InUse
    PROVE  Inv'
  <1>1. TypeOK'
    BY DEF Inv, TypeOK, Written, Closures
  <1>2. \A u \in InUse : u \in Pairs /\ u.bc \in Entered
    BY UseTypes DEF Inv, Entered, Pairs
  <1>3. Holders' \subseteq Written
    <2>1. Running' \subseteq Entered
      BY <1>2 DEF Running
    <2> QED
      BY <2>1 DEF Inv, Holders, Entered, Making, Closures
  <1>4. InUse' \subseteq InUse
    BY DEF InUse, Closures
  <1>5. InterningOK'
    BY DEF Inv, InterningOK
  <1> QED
    BY <1>1, <1>3, <1>4, <1>5, QuietStep

LEMMA FramesStep ==
    ASSUME Inv, Call \/ Return \/ TailCall \/ DropRoot
    PROVE  Inv'
  <1>1. \A o \in rooted : closures[o] \in InUse /\ closures[o] \in Pairs
    BY DEF Inv, TypeOK, InUse, Closures
  <1>2. frames \in Seq(Pairs) /\ Len(frames) <= MaxFrames /\ \A i \in DOMAIN frames : frames[i] \in InUse
    BY DEF Inv, TypeOK, InUse
  <1>3. CASE Call
    <2>1. PICK o \in rooted : frames' = Append(frames, closures[o])
      BY <1>3 DEF Call
    <2>2. /\ frames' \in Seq(Pairs) /\ Len(frames') = Len(frames) + 1 /\ DOMAIN frames' = 1 .. Len(frames) + 1
          /\ DOMAIN frames = 1 .. Len(frames) /\ Len(frames) \in Nat
          /\ \A i \in 1 .. Len(frames) + 1 : frames'[i] = IF i <= Len(frames) THEN frames[i] ELSE closures[o]
      BY <1>1, <1>2, <2>1
    <2>3. Len(frames') <= MaxFrames
      BY <1>3, <2>2, FramesAreBounded DEF Call
    <2>4. \A i \in DOMAIN frames' : frames'[i] \in InUse
      BY <1>1, <1>2, <2>2
    <2> QED
      BY <1>3, <2>2, <2>3, <2>4, MutatorStep DEF Call
  <1>4. CASE Return
    <2>1. Len(frames) \in Nat \ {0} /\ DOMAIN frames = 1 .. Len(frames)
      BY <1>2, <1>4 DEF Return
    <2>2. /\ frames' \in Seq(Pairs) /\ Len(frames') = Len(frames) - 1 /\ DOMAIN frames' = 1 .. Len(frames) - 1
          /\ \A i \in 1 .. Len(frames) - 1 : frames'[i] = frames[i]
      BY <1>2, <1>4, <2>1 DEF Return
    <2>3. Len(frames') <= MaxFrames
      BY <1>2, <2>1, <2>2, FramesAreBounded
    <2>4. \A i \in DOMAIN frames' : frames'[i] \in InUse
      BY <1>2, <2>1, <2>2
    <2> QED
      BY <1>4, <2>2, <2>3, <2>4, MutatorStep DEF Return
  <1>5. CASE TailCall
    <2>1. PICK o \in rooted : frames' = [frames EXCEPT ![Len(frames)] = closures[o]]
      BY <1>5, Zenon DEF TailCall
    <2>a. Len(frames) \in 1 .. Len(frames) /\ DOMAIN frames = 1 .. Len(frames)
      BY <1>2, <1>5 DEF TailCall
    <2>2. frames' \in Seq(Pairs) /\ Len(frames') = Len(frames) /\ DOMAIN frames' = DOMAIN frames
      BY <1>1, <1>2, <2>1, <2>a
    <2>3. \A i \in DOMAIN frames' : frames'[i] \in InUse
      BY <1>1, <1>2, <2>1, <2>2
    <2> QED
      BY <1>2, <1>5, <2>2, <2>3, MutatorStep DEF TailCall
  <1>6. CASE DropRoot
    BY <1>2, <1>6, MutatorStep DEF DropRoot
  <1> QED
    BY <1>3, <1>4, <1>5, <1>6

(* What runs, what is reachable and what is being made stays entered. *)
LEMMA Kept ==
    ASSUME Inv
    PROVE  /\ Running \cup Reached \subseteq Trees(Running \cup Reached)
           /\ Running \cup Reached \subseteq Written
           /\ \A o \in rooted : closures[o].bc \in Reached
           /\ Pending \subseteq Entered
  <1>1. \A u \in InUse : u \in Pairs /\ u.bc \in Entered
    BY UseTypes DEF Inv, Entered, Pairs
  <1>2. Entered \subseteq Written /\ Running \subseteq Written
    BY DEF Inv, Holders
  <1>3. Running \cup Reached \subseteq Written
    BY <1>2 DEF Reached
  <1>4. Running \cup Reached \subseteq Trees(Running \cup Reached)
    BY <1>3, TreesAreClosed DEF Inv
  <1>5. \A o \in rooted : closures[o].bc \in Reached
    <2>1. \A o \in rooted : closures[o] \in InUse
      BY DEF Inv, TypeOK, InUse
    <2> QED
      BY <1>1, <2>1 DEF Inv, Reached
  <1>6. Pending \subseteq Entered
    <2>1. op.phase = "alloc" => [bc |-> op.bc, rt |-> op.rt] \in InUse
      BY DEF InUse
    <2> QED
      BY <1>1, <2>1 DEF Pending
  <1> QED
    BY <1>3, <1>4, <1>5, <1>6

LEMMA CollectStep ==
    ASSUME Inv, Collect
    PROVE  Inv'
  <1>1. /\ entries' = [a \in Addrs |-> IF a \in Retained THEN entries[a] ELSE None]
        /\ closures' = [o \in Objs |-> IF o \in rooted THEN closures[o] ELSE None]
        /\ strings' = strings \cap MarkedStrings
        /\ UNCHANGED <<code, programs, literals, rooted, frames, op>>
    BY DEF Collect
  <1>2. /\ entries' \in [Addrs -> Entries \cup {None}] /\ closures' \in [Objs -> Pairs \cup {None}]
        /\ strings' \subseteq strings
    BY <1>1 DEF Inv, TypeOK
  <1>3. Closures' = rooted /\ \A o \in rooted : closures'[o] = closures[o]
    BY <1>1 DEF Inv, TypeOK, Closures
  <1>4. Entered' \subseteq Entered /\ \A a \in Entered' : entries'[a] = entries[a]
    BY <1>1 DEF Entered
  <1>5. TypeOK'
    BY <1>1, <1>2, <1>3 DEF Inv, TypeOK, Written
  <1>6. Written' = Written /\ Closed(Written)'
    BY <1>1 DEF Inv, Written, Closed
  <1>7. Holders' \subseteq Written'
    <2>1. {closures'[o].bc : o \in Closures'} \subseteq {closures[o].bc : o \in Closures}
      BY <1>3 DEF Inv, TypeOK
    <2>2. Running' = Running /\ Making' = Making
      BY <1>1 DEF Running, Making
    <2> QED
      BY <1>1, <1>4, <1>6, <2>1, <2>2, Zenon DEF Inv, Holders
  <1>8. \A a \in Entered' : EntryOK(a)'
    <2> SUFFICES ASSUME NEW a \in Entered'
                 PROVE  EntryOK(a)'
      OBVIOUS
    <2>1. EntryOK(a) /\ a \in Entered /\ entries'[a] = entries[a]
      BY <1>4 DEF Inv
    <2>2. literals[entries[a].rt] \subseteq MarkedStrings
      BY <2>1 DEF MarkedStrings
    <2> QED
      BY <1>1, <2>1, <2>2 DEF EntryOK
  <1>9. InUse' \subseteq InUse
    BY <1>1, <1>3 DEF InUse, Inv, TypeOK
  <1>10. \A u \in InUse' : u.bc \in Retained /\ u.bc \in Addrs
    <2>1. \A u \in InUse' : u.bc \in Addrs
      BY <1>9, UseTypes DEF Inv, Pairs
    <2>2. \A o \in rooted : closures[o].bc \in Retained
      BY Kept, Zenon DEF Retained
    <2>3. \A i \in DOMAIN frames : frames[i].bc \in Retained
      BY Kept DEF Retained, Running
    <2>4. op.phase = "alloc" => op.bc \in Retained
      BY DEF Retained, Pending
    <2> QED
      <3> SUFFICES ASSUME NEW u \in InUse'
                   PROVE  u.bc \in Retained
        BY <2>1
      <3>1. CASE \E o \in Closures' : u = closures'[o]
        BY <1>3, <2>2, <3>1
      <3>2. CASE \E i \in DOMAIN frames' : u = frames'[i]
        BY <1>1, <2>3, <3>2
      <3>3. CASE op'.phase = "alloc" /\ u = [bc |-> op'.bc, rt |-> op'.rt]
        BY <1>1, <2>4, <3>3
      <3> QED
        BY <3>1, <3>2, <3>3 DEF InUse
  <1>11. \A u \in InUse' : (entries[u.bc] # None /\ entries[u.bc].rt = u.rt)'
    BY <1>1, <1>9, <1>10 DEF Inv
  <1>12. InterningOK'
    <2>1. op.phase = "intern" => op.done \subseteq MarkedStrings
      BY DEF MarkedStrings
    <2>2. op.phase = "intern" => op.bc \in Addrs
      BY Phases DEF Inv
    <2> QED
      BY <1>1, <2>1, <2>2 DEF Inv, InterningOK
  <1> QED
    BY <1>5, <1>6, <1>7, <1>8, <1>11, <1>12 DEF Inv

LEMMA NextInv == Inv /\ [Next]_vars => Inv'
  <1> SUFFICES ASSUME Inv, [Next]_vars PROVE Inv'
    OBVIOUS
  <1>1. CASE UNCHANGED vars
    <2>1. TypeOK'
      BY <1>1 DEF vars, Inv, TypeOK, Written, Closures
    <2>2. Holders' \subseteq Written
      <3>1. Holders' = Holders
        BY <1>1 DEF vars, Holders, Entered, Running, Making, Closures
      <3> QED
        BY <3>1 DEF Inv
    <2>3. InterningOK'
      BY <1>1, Zenon DEF vars, Inv, InterningOK
    <2>4. InUse' = InUse
      BY <1>1, Zenon DEF vars, InUse, Closures
    <2> QED
      BY <1>1, <2>1, <2>2, <2>3, <2>4, QuietStep DEF vars
  <1> QED
    BY <1>1, CompileStep, DropProgramStep, BeginClosureStep, InternLiteralStep, EnterRuntimeStep,
       AllocClosureStep, FramesStep, CollectStep DEF Next

LEMMA InvHolds == Spec => []Inv
  BY InitInv, NextInv, PTL DEF Spec
-----------------------------------------------------------------------------
LEMMA InvImpliesCached == Inv => RuntimesAreCached
  <1> SUFFICES ASSUME Inv PROVE RuntimesAreCached
    OBVIOUS
  <1>1. \A u \in InUse : u.bc \in Entered
    BY UseTypes DEF Inv, Entered, Pairs
  <1> QED
    BY <1>1 DEF Inv, RuntimesAreCached, EntryOK, InterningOK

(***************************************************************************)
(* Whatever executes uses the one runtime the map has for its bytecode,    *)
(* with its own function's literals, all alive, for any programs, any      *)
(* nesting of functions and any call depth (bytecode_caches in src/vm.rs,  *)
(* resolve_bytecode_runtime, sweep_bytecode_caches).                       *)
(***************************************************************************)
THEOREM ExecutionIsCached == Spec => []RuntimesAreCached
  BY InvHolds, InvImpliesCached, PTL

(***************************************************************************)
(* No collection takes the runtime of a function nested in one that runs   *)
(* or is reachable, also while another closure of it is being made         *)
(* (LiveChunks, retain_bytecode_tree).                                     *)
(***************************************************************************)
THEOREM NestedFunctionsKeepRuntimes == Spec => NestedRuntimesSurvive
  <1>1. ASSUME Inv, [Next]_vars
        PROVE  [\A a \in Entered :
                  (\E u \in {frames[i] : i \in DOMAIN frames} \cup {closures[o] : o \in rooted} :
                      a \in Trees({u.bc}))
                  => entries'[a] = entries[a]]_vars
    <2> SUFFICES ASSUME Next, NEW a \in Entered,
                        NEW u \in {frames[i] : i \in DOMAIN frames} \cup {closures[o] : o \in rooted},
                        a \in Trees({u.bc})
                 PROVE  entries'[a] = entries[a]
      BY <1>1, Zenon
    <2>1. CASE Collect
      <3>1. u.bc \in Running \cup Reached
        BY <1>1, Kept DEF Running
      <3>2. a \in Trees(Running \cup Reached)
        BY <3>1, TreesGrow
      <3> QED
        BY <2>1, <3>2 DEF Collect, Retained, Entered
    <2>2. CASE EnterRuntime
      <3>1. entries[op.bc] = None
        BY <1>1, <2>2 DEF Inv, InterningOK, EnterRuntime
      <3>2. a # op.bc
        BY <3>1 DEF Entered
      <3> QED
        BY <1>1, <2>2, <3>2 DEF EnterRuntime, Inv, TypeOK, Entered
    <2> QED
      BY <2>1, <2>2 DEF Next, Compile, DropProgram, BeginClosure, InternLiteral, AllocClosure,
                        Call, TailCall, Return, DropRoot
  <1> QED
    BY <1>1, InvHolds, PTL DEF Spec, NestedRuntimesSurvive

(***************************************************************************)
(* Both: a runtime outlives every use of its bytecode                      *)
(* (retain_bytecode_runtimes).                                             *)
(***************************************************************************)
THEOREM RuntimesAreSafe == Spec => RuntimesOutliveTheirUse
  BY ExecutionIsCached, NestedFunctionsKeepRuntimes DEF RuntimesOutliveTheirUse

=============================================================================
