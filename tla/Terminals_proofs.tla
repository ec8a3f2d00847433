-------------------------- MODULE Terminals_proofs --------------------------
(***************************************************************************)
(* Proofs about Terminals, for any number of blocks and of terminals.      *)
(***************************************************************************)
EXTENDS Terminals, TLAPS

USE DEF Made, Owner, Blocks, Valid, Holding

LEMMA InitInv == Init => TerminalsInv
BY TerminalsAssumption
   DEF Init, TerminalsInv, TypeOK, NothingIsLost, OneHolder, OwnersKeepTheirData

(* A step that puts a terminal of its own blocks where there was none and  *)
(* lets nobody else go: what a creation, a copy or a conversion does.      *)
LEMMA NewOwner ==
  ASSUME TerminalsInv,
         NEW t \in Terminal, ~Made(t),
         NEW r \in Record, r.access = "OWNER",
         term' = [term EXCEPT ![t] = r],
         heap' \in [Block -> Meaning \cup {Free}],
         client' \subseteq client,
         \A b \in Blocks(r) : heap'[b] = r.made,
         \A b \in Block \ Blocks(r) : heap'[b] = heap[b],
         \A b \in Block : b \in client' <=> b \in client \ Blocks(r),
         \A u \in Terminal : Owner(u) => Blocks(term[u]) \cap Blocks(r) = {}
  PROVE  TerminalsInv'
<1>1. /\ r # None /\ r.made # Free /\ r.made \in Meaning
      /\ r.data \in Block /\ r.index \subseteq Block
  BY TerminalsAssumption DEF Record
<1>2. /\ term' \in [Terminal -> Record \cup {None}]
      /\ term'[t] = r
      /\ \A u \in Terminal \ {t} : term'[u] = term[u]
  BY DEF TerminalsInv, TypeOK
<1>3. TypeOK'
  BY <1>2 DEF TerminalsInv, TypeOK
<1>4. NothingIsLost'
  <2>1. SUFFICES ASSUME NEW b \in Block, heap'[b] # Free, b \notin client'
                 PROVE  \E u \in Terminal : Owner(u)' /\ b \in Blocks(term[u])'
    BY DEF NothingIsLost
  <2>2. CASE b \in Blocks(r)
    BY <1>1, <1>2, <2>2
  <2>3. CASE b \notin Blocks(r)
    <3>1. PICK u \in Terminal : Owner(u) /\ b \in Blocks(term[u])
      BY <2>1, <2>3 DEF TerminalsInv, NothingIsLost
    <3>2. u # t
      BY <3>1
    <3>3. QED
      BY <1>2, <3>1, <3>2
  <2>4. QED
    BY <2>2, <2>3
<1>5. OneHolder'
  <2>1. \A b \in client' : heap'[b] # Free
    BY DEF TerminalsInv, TypeOK, OneHolder
  <2>2. \A b \in Blocks(r) : b \notin client'
    BY <1>1
  <2>3. \A u \in Terminal \ {t} : Owner(u)' <=> Owner(u)
    BY <1>2
  <2>4. QED
    BY <1>1, <1>2, <2>1, <2>2, <2>3 DEF TerminalsInv, TypeOK, OneHolder
<1>6. OwnersKeepTheirData'
  <2>1. SUFFICES ASSUME NEW u \in Terminal, Owner(u)' PROVE Valid(u)'
    BY DEF OwnersKeepTheirData
  <2>2. CASE u = t
    BY <1>2, <2>2
  <2>3. CASE u # t
    <3>1. Owner(u) /\ term'[u] = term[u] /\ term[u] \in Record
      BY <1>2, <2>1, <2>3 DEF TerminalsInv, TypeOK
    <3>2. \A b \in Blocks(term[u]) : b \in Block \ Blocks(r)
      BY <3>1 DEF Record
    <3>3. QED
      BY <3>1, <3>2 DEF TerminalsInv, OwnersKeepTheirData
  <2>4. QED
    BY <2>2, <2>3
<1>7. QED
  BY <1>3, <1>4, <1>5, <1>6 DEF TerminalsInv

(* A viewer more or less does not matter.                                  *)
LEMMA NewViewer ==
  ASSUME TerminalsInv,
         NEW t \in Terminal, ~Made(t),
         NEW r \in Record, r.access = "VIEWER",
         term' = [term EXCEPT ![t] = r],
         UNCHANGED <<heap, client>>
  PROVE  TerminalsInv'
<1>1. /\ term' \in [Terminal -> Record \cup {None}]
      /\ term'[t] = r
      /\ \A u \in Terminal \ {t} : term'[u] = term[u]
  BY DEF TerminalsInv, TypeOK
<1>2. \A u \in Terminal : Owner(u)' <=> Owner(u)
  BY <1>1
<1>3. \A u \in Terminal : Owner(u) => term'[u] = term[u]
  BY <1>1, <1>2
<1>4. TypeOK'
  BY <1>1 DEF TerminalsInv, TypeOK
<1>5. NothingIsLost'
  BY <1>2, <1>3 DEF TerminalsInv, NothingIsLost
<1>6. OneHolder'
  BY <1>2, <1>3 DEF TerminalsInv, OneHolder
<1>7. OwnersKeepTheirData'
  BY <1>2, <1>3 DEF TerminalsInv, OwnersKeepTheirData
<1>8. QED
  BY <1>4, <1>5, <1>6, <1>7 DEF TerminalsInv

(* The client gets a block nobody has.                                     *)
LEMMA ClientGets ==
  ASSUME TerminalsInv, NEW b \in Block, NEW v \in Meaning,
         heap[b] = Free,
         heap' = Holding({b}, v),
         client' = client \cup {b},
         UNCHANGED term
  PROVE  TerminalsInv'
<1>1. v # Free
  BY TerminalsAssumption
<1>2. \A u \in Terminal : Owner(u) => b \notin Blocks(term[u])
  <2>1. SUFFICES ASSUME NEW u \in Terminal, Owner(u), b \in Blocks(term[u])
                 PROVE  FALSE
    OBVIOUS
  <2>2. heap[b] = term[u].made /\ term[u] \in Record
    BY <2>1 DEF TerminalsInv, TypeOK, OwnersKeepTheirData
  <2>3. QED
    BY <2>2, TerminalsAssumption DEF Record
<1>3. TypeOK'
  BY DEF TerminalsInv, TypeOK
<1>4. NothingIsLost'
  BY DEF TerminalsInv, NothingIsLost
<1>5. OneHolder'
  BY <1>1, <1>2 DEF TerminalsInv, TypeOK, OneHolder
<1>6. OwnersKeepTheirData'
  <2>1. SUFFICES ASSUME NEW u \in Terminal, Owner(u), NEW c \in Blocks(term[u])
                 PROVE  heap'[c] = term[u].made
    BY DEF OwnersKeepTheirData
  <2>2. c \in Block /\ c # b
    BY <1>2, <2>1 DEF TerminalsInv, TypeOK, Record
  <2>3. QED
    BY <2>1, <2>2 DEF TerminalsInv, OwnersKeepTheirData
<1>7. QED
  BY <1>3, <1>4, <1>5, <1>6 DEF TerminalsInv

(* What the client has is not an owner's, and what is free is nobody's.    *)
LEMMA Elsewhere ==
  ASSUME TerminalsInv, NEW b \in Block, b \in client \/ heap[b] = Free
  PROVE  \A u \in Terminal : Owner(u) => b \notin Blocks(term[u])
<1>1. SUFFICES ASSUME NEW u \in Terminal, Owner(u), b \in Blocks(term[u])
               PROVE  FALSE
  OBVIOUS
<1>2. b \notin client
  BY <1>1 DEF TerminalsInv, OneHolder
<1>3. heap[b] = term[u].made /\ term[u] \in Record
  BY <1>1 DEF TerminalsInv, TypeOK, OwnersKeepTheirData
<1>4. QED
  BY <1>2, <1>3, TerminalsAssumption DEF Record

LEMMA ClientKeepsInv == TerminalsInv /\ ClientStep => TerminalsInv'
<1>1. SUFFICES ASSUME TerminalsInv, ClientStep PROVE TerminalsInv'
  OBVIOUS
<1>2. ASSUME NEW b \in Block, NEW v \in Meaning, ClientAllocates(b, v)
      PROVE  TerminalsInv'
  BY <1>1, <1>2, ClientGets DEF ClientAllocates
<1>3. ASSUME NEW b \in Block, ClientFrees(b)
      PROVE  TerminalsInv'
  <2>1. b \in client /\ heap' = Holding({b}, Free) /\ client' = client \ {b}
        /\ UNCHANGED term
    BY <1>3 DEF ClientFrees
  <2>2. \A u \in Terminal : Owner(u) => b \notin Blocks(term[u])
    BY <1>1, <2>1, Elsewhere
  <2>3. TypeOK'
    BY <1>1, <2>1 DEF TerminalsInv, TypeOK
  <2>4. NothingIsLost'
    BY <1>1, <2>1, <2>2 DEF TerminalsInv, NothingIsLost
  <2>5. OneHolder'
    BY <1>1, <2>1, <2>2 DEF TerminalsInv, TypeOK, OneHolder
  <2>6. OwnersKeepTheirData'
    <3>1. SUFFICES ASSUME NEW u \in Terminal, Owner(u), NEW c \in Blocks(term[u])
                   PROVE  heap'[c] = term[u].made
      BY <2>1 DEF OwnersKeepTheirData
    <3>2. c \in Block /\ c # b
      BY <1>1, <2>2, <3>1 DEF TerminalsInv, TypeOK, Record
    <3>3. QED
      BY <1>1, <2>1, <3>1, <3>2 DEF TerminalsInv, OwnersKeepTheirData
  <2>7. QED
    BY <2>3, <2>4, <2>5, <2>6 DEF TerminalsInv
<1>4. QED
  BY <1>1, <1>2, <1>3 DEF ClientStep

LEMMA CreateKeepsInv == TerminalsInv /\ CreateStep => TerminalsInv'
<1>1. SUFFICES ASSUME TerminalsInv, CreateStep PROVE TerminalsInv'
  OBVIOUS
<1>2. ASSUME NEW t \in Terminal, NEW d \in Block, NEW idx \in SUBSET Block,
             NEW access \in {"VIEWER", "OWNER"}, Create(t, d, idx, access)
      PROVE  TerminalsInv'
  <2> DEFINE r == [data |-> d, index |-> idx, access |-> access, made |-> heap[d]]
  <2>1. /\ ~Made(t) /\ {d} \cup idx \subseteq client
        /\ \A b \in idx : heap[b] = heap[d]
        /\ term' = [term EXCEPT ![t] = r]
        /\ client' = IF access = "OWNER" THEN client \ ({d} \cup idx) ELSE client
        /\ heap' = heap
    BY <1>2 DEF Create
  <2>2. r \in Record
    BY <1>1, <2>1 DEF Record, TerminalsInv, TypeOK, OneHolder
  <2>3. CASE access = "VIEWER"
    BY <1>1, <2>1, <2>2, <2>3, NewViewer
  <2>4. CASE access = "OWNER"
    <3>1. \A u \in Terminal : Owner(u) => Blocks(term[u]) \cap Blocks(r) = {}
      BY <1>1, <2>1, Elsewhere
    <3>2. \A b \in Blocks(r) : heap'[b] = r.made
      BY <2>1
    <3>3. heap' \in [Block -> Meaning \cup {Free}]
      BY <1>1, <2>1 DEF TerminalsInv, TypeOK
    <3>4. \A b \in Block : b \in client' <=> b \in client \ Blocks(r)
      BY <2>1, <2>4
    <3>5. client' \subseteq client /\ r.access = "OWNER"
      BY <2>1, <2>4
    <3> HIDE DEF r
    <3>6. QED
      BY <1>1, <2>1, <2>2, <3>1, <3>2, <3>3, <3>4, <3>5, NewOwner
  <2>5. QED
    BY <1>2, <2>3, <2>4
<1>3. ASSUME NEW t \in Terminal, NEW d \in Block, NEW v \in Meaning,
             CreateFromRows(t, d, v)
      PROVE  TerminalsInv'
  <2> DEFINE r == [data |-> d, index |-> {}, access |-> "OWNER", made |-> v]
  <2>1. /\ ~Made(t) /\ heap[d] = Free /\ heap' = Holding({d}, v)
        /\ term' = [term EXCEPT ![t] = r] /\ client' = client
    BY <1>3 DEF CreateFromRows
  <2>2. r \in Record /\ r.access = "OWNER" /\ Blocks(r) = {d} /\ r.made = v
    BY DEF Record
  <2>3. \A u \in Terminal : Owner(u) => Blocks(term[u]) \cap Blocks(r) = {}
    BY <1>1, <2>1, <2>2, Elsewhere
  <2>4. /\ heap' \in [Block -> Meaning \cup {Free}]
        /\ \A b \in Blocks(r) : heap'[b] = r.made
        /\ \A b \in Block \ Blocks(r) : heap'[b] = heap[b]
    BY <1>1, <2>1, <2>2 DEF TerminalsInv, TypeOK
  <2>5. \A b \in Block : b \in client' <=> b \in client \ Blocks(r)
    BY <1>1, <2>1, <2>2 DEF TerminalsInv, OneHolder
  <2> HIDE DEF r
  <2>6. QED
    BY <1>1, <2>1, <2>2, <2>3, <2>4, <2>5, NewOwner
<1>4. ASSUME NEW d \in Block, NEW access \in {"VIEWER", "OWNER"},
             ConstructorThrows(d, access)
      PROVE  TerminalsInv'
  <2>1. UNCHANGED vars
    BY <1>4 DEF ConstructorThrows, AccessWhenThrown, vars
  <2>2. QED
    BY <1>1, <2>1 DEF TerminalsInv, TypeOK, NothingIsLost, OneHolder,
                      OwnersKeepTheirData, vars
<1>5. QED
  BY <1>1, <1>2, <1>3, <1>4 DEF CreateStep

LEMMA CopyKeepsInv == TerminalsInv /\ CopyStep => TerminalsInv'
<1>1. SUFFICES ASSUME TerminalsInv, CopyStep PROVE TerminalsInv'
  OBVIOUS
<1>2. \A t \in Terminal : Made(t) => term[t] \in Record
  BY <1>1 DEF TerminalsInv, TypeOK
<1>3. ASSUME NEW t \in Terminal, NEW u \in Terminal, Copy(t, u)
      PROVE  TerminalsInv'
  <2> DEFINE r == [term[t] EXCEPT !.access = "VIEWER"]
  <2>1. /\ Made(t) /\ ~Made(u)
        /\ term' = [term EXCEPT ![u] = r] /\ UNCHANGED <<heap, client>>
    BY <1>3 DEF Copy
  <2>2. r \in Record /\ r.access = "VIEWER"
    BY <1>2, <2>1 DEF Record
  <2> HIDE DEF r
  <2>3. QED
    BY <1>1, <2>1, <2>2, NewViewer
<1>4. ASSUME NEW t \in Terminal, NEW u \in Terminal, NEW d \in Block,
             NEW idx \in SUBSET Block,
             Made(t), ~Made(u), Valid(t), d \notin idx,
             {d} \cup idx \subseteq FreeBlocks,
             heap' = Holding({d} \cup idx, heap[term[t].data]),
             term' = [term EXCEPT ![u] = [data |-> d, index |-> idx,
                               access |-> "OWNER", made |-> term[t].made]],
             UNCHANGED client
      PROVE  TerminalsInv'
  <2> DEFINE r == [data |-> d, index |-> idx, access |-> "OWNER",
                   made |-> term[t].made]
  <2>1. /\ r \in Record /\ r.access = "OWNER" /\ Blocks(r) = {d} \cup idx
        /\ r.made = term[t].made /\ r.made \in Meaning
        /\ heap[term[t].data] = r.made
    BY <1>2, <1>4 DEF Record
  <2>2. \A b \in Blocks(r) : b \in Block /\ heap[b] = Free
    BY <1>4, <2>1 DEF FreeBlocks
  <2>3. \A v \in Terminal : Owner(v) => Blocks(term[v]) \cap Blocks(r) = {}
    BY <1>1, <2>2, Elsewhere
  <2>4. /\ heap' \in [Block -> Meaning \cup {Free}]
        /\ \A b \in Blocks(r) : heap'[b] = r.made
        /\ \A b \in Block \ Blocks(r) : heap'[b] = heap[b]
    BY <1>1, <1>4, <2>1, <2>2 DEF TerminalsInv, TypeOK
  <2>5. \A b \in Block : b \in client' <=> b \in client \ Blocks(r)
    BY <1>1, <1>4, <2>2 DEF TerminalsInv, OneHolder
  <2>6. /\ term' = [term EXCEPT ![u] = r] /\ client' \subseteq client
        /\ ~Made(u)
    BY <1>4
  <2> HIDE DEF r
  <2>7. QED
    BY <1>1, <2>1, <2>3, <2>4, <2>5, <2>6, NewOwner
<1>5. ASSUME NEW t \in Terminal, NEW u \in Terminal, NEW d \in Block,
             NEW idx \in SUBSET Block, OwningCopy(t, u, d, idx)
      PROVE  TerminalsInv'
  BY <1>4, <1>5 DEF OwningCopy, IsLayout
<1>6. ASSUME NEW t \in Terminal, NEW u \in Terminal, NEW d \in Block,
             AsFullMatrix(t, u, d)
      PROVE  TerminalsInv'
  <2>1. /\ d \notin {} /\ {d} \cup {} \subseteq FreeBlocks /\ {} \in SUBSET Block
        /\ heap' = Holding({d} \cup {}, heap[term[t].data])
    BY <1>6 DEF AsFullMatrix, FreeBlocks
  <2>2. /\ Made(t) /\ ~Made(u) /\ Valid(t) /\ UNCHANGED client
        /\ term' = [term EXCEPT ![u] = [data |-> d, index |-> {},
                         access |-> "OWNER", made |-> term[t].made]]
    BY <1>6 DEF AsFullMatrix
  <2> HIDE DEF Made, Valid, Holding
  <2>3. QED
    BY <1>4, <2>1, <2>2
<1>7. ASSUME NEW t \in Terminal, NEW b \in Block, ToArray(t, b)
      PROVE  TerminalsInv'
  <2>1. heap[term[t].data] \in Meaning
    BY <1>2, <1>7 DEF ToArray, Record
  <2>2. QED
    BY <1>1, <1>7, <2>1, ClientGets DEF ToArray
<1>8. QED
  BY <1>1, <1>3, <1>5, <1>6, <1>7 DEF CopyStep

LEMMA DropKeepsInv ==
  ASSUME TerminalsInv, NEW t \in Terminal, Drop(t)
  PROVE  TerminalsInv'
<1>1. /\ Made(t) /\ term[t] \in Record
      /\ heap' = Holding(Deleted(term[t]), Free)
      /\ term' = [term EXCEPT ![t] = None] /\ client' = client
  BY DEF Drop, TerminalsInv, TypeOK
<1>2. Deleted(term[t]) = IF Owner(t) THEN Blocks(term[t]) ELSE {}
  BY <1>1 DEF Deleted
<1>3. /\ ~Made(t)'
      /\ \A u \in Terminal \ {t} : term'[u] = term[u]
      /\ term' \in [Terminal -> Record \cup {None}]
  BY <1>1 DEF TerminalsInv, TypeOK
<1>4. \A u \in Terminal \ {t} : Owner(u) =>
        \A b \in Blocks(term[u]) : b \in Block /\ b \notin Deleted(term[t])
  BY <1>1, <1>2 DEF TerminalsInv, TypeOK, OneHolder, Record
<1>5. TypeOK'
  BY <1>1, <1>3 DEF TerminalsInv, TypeOK
<1>6. NothingIsLost'
  <2>1. SUFFICES ASSUME NEW b \in Block, heap'[b] # Free, b \notin client
                 PROVE  \E u \in Terminal : Owner(u)' /\ b \in Blocks(term[u])'
    BY <1>1 DEF NothingIsLost
  <2>2. heap[b] # Free /\ b \notin Deleted(term[t])
    BY <1>1, <2>1
  <2>3. PICK u \in Terminal : Owner(u) /\ b \in Blocks(term[u])
    BY <2>1, <2>2 DEF TerminalsInv, NothingIsLost
  <2>4. u # t
    BY <1>2, <2>2, <2>3
  <2>5. QED
    BY <1>3, <2>3, <2>4
<1>7. OneHolder'
  <2>1. \A b \in client : b \notin Deleted(term[t])
    BY <1>2 DEF TerminalsInv, OneHolder
  <2>2. \A b \in client : heap'[b] # Free
    BY <1>1, <2>1 DEF TerminalsInv, TypeOK, OneHolder
  <2>3. \A u \in Terminal : Owner(u)' => u # t /\ Owner(u) /\ term'[u] = term[u]
    BY <1>3
  <2>4. QED
    BY <1>1, <2>2, <2>3 DEF TerminalsInv, OneHolder
<1>8. OwnersKeepTheirData'
  <2>1. SUFFICES ASSUME NEW u \in Terminal, Owner(u)', NEW b \in Blocks(term[u])'
                 PROVE  heap'[b] = term'[u].made
    BY DEF OwnersKeepTheirData
  <2>2. u # t /\ term'[u] = term[u] /\ Owner(u)
    BY <1>3, <2>1
  <2>3. b \in Block /\ b \notin Deleted(term[t])
    BY <1>4, <2>1, <2>2
  <2>4. QED
    BY <1>1, <2>1, <2>2, <2>3 DEF TerminalsInv, OwnersKeepTheirData
<1>9. QED
  BY <1>5, <1>6, <1>7, <1>8 DEF TerminalsInv

LEMMA StepKeepsInv == TerminalsInv /\ [Next]_vars => TerminalsInv'
<1>1. SUFFICES ASSUME TerminalsInv, [Next]_vars PROVE TerminalsInv'
  OBVIOUS
<1>2. CASE UNCHANGED vars
  BY <1>1, <1>2 DEF TerminalsInv, TypeOK, NothingIsLost, OneHolder,
                    OwnersKeepTheirData, vars
<1>3. CASE Next
  BY <1>1, <1>3, ClientKeepsInv, CreateKeepsInv, CopyKeepsInv, DropKeepsInv DEF Next
<1>4. QED
  BY <1>1, <1>2, <1>3

-----------------------------------------------------------------------------
(* No block is lost, none is held twice, and an owner shows what it was    *)
(* made from (constructors, copies and destructor of terminal.cc).         *)
THEOREM InvariantHolds == Spec => []TerminalsInv
<1>1. QED
  BY InitInv, StepKeepsInv, PTL DEF Spec

(* Terminals keep their types (the OGArray fields of terminal.cc).         *)
THEOREM TypeCorrect == Spec => []TypeOK
<1>1. TerminalsInv => TypeOK
  BY DEF TerminalsInv
<1>2. QED
  BY <1>1, InvariantHolds, PTL

(* Every block in use is the client's or an owner's, however many there    *)
(* are: the destructors of terminal.cc leave nothing behind.               *)
THEOREM NoLeak == Spec => []NothingIsLost
<1>1. TerminalsInv => NothingIsLost
  BY DEF TerminalsInv
<1>2. QED
  BY <1>1, InvariantHolds, PTL

(* No destructor of terminal.cc frees a block a second time, or one that   *)
(* the client or another terminal holds.                                   *)
THEOREM NoDoubleFree == Spec => []OneHolder
<1>1. TerminalsInv => OneHolder
  BY DEF TerminalsInv
<1>2. QED
  BY <1>1, InvariantHolds, PTL

(* Owning copies and conversions are independent of what they were made    *)
(* from (createOwningCopy, asFullOG...DenseMatrix).                        *)
THEOREM CopiesAreIndependent == Spec => []OwnersKeepTheirData
<1>1. TerminalsInv => OwnersKeepTheirData
  BY DEF TerminalsInv
<1>2. QED
  BY <1>1, InvariantHolds, PTL

(* Whatever invalidates a terminal lets one of its blocks go.              *)
LEMMA StepInvalidates ==
  ASSUME TerminalsInv, Next, NEW t \in Terminal,
         Made(t), term'[t] = term[t], Valid(t), ~Valid(t)'
  PROVE  HolderLetsGo(t)
<1>1. term[t] \in Record /\ term[t].made # Free
  BY TerminalsAssumption DEF TerminalsInv, TypeOK, Record
<1>2. PICK b \in Blocks(term[t]) : heap'[b] # heap[b]
  OBVIOUS
<1>3. b \in Block /\ heap[b] # Free
  BY <1>1 DEF Record
<1>4. heap \in [Block -> Meaning \cup {Free}]
  BY DEF TerminalsInv, TypeOK
<1>5. ASSUME NEW bs \in SUBSET FreeBlocks, NEW v, heap' = Holding(bs, v)
      PROVE  FALSE
  BY <1>2, <1>3, <1>5 DEF FreeBlocks
<1>6. ASSUME NEW c \in Block, ClientFrees(c) PROVE HolderLetsGo(t)
  <2>1. c = b
    BY <1>2, <1>3, <1>6 DEF ClientFrees
  <2>2. b \in client \ client' /\ heap'[b] = Free
    BY <1>3, <1>6, <2>1 DEF ClientFrees
  <2>3. QED
    BY <2>2 DEF HolderLetsGo
<1>7. ASSUME NEW u \in Terminal, Drop(u) PROVE HolderLetsGo(t)
  <2>1. b \in Deleted(term[u])
    BY <1>2, <1>3, <1>4, <1>7 DEF Drop
  <2>2. Owner(u) /\ b \in Blocks(term[u])
    BY <1>7, <2>1 DEF Drop, Deleted
  <2>3. term'[u] = None
    BY <1>7 DEF Drop, TerminalsInv, TypeOK
  <2>4. QED
    BY <2>2, <2>3 DEF HolderLetsGo
<1>8. ASSUME NEW c \in Block, NEW v \in Meaning, ClientAllocates(c, v) PROVE FALSE
  BY <1>2, <1>3, <1>8 DEF ClientAllocates
<1>9. CASE CreateStep
  <2>1. ASSUME NEW u \in Terminal, NEW d \in Block, NEW idx \in SUBSET Block,
               NEW access \in {"VIEWER", "OWNER"}, Create(u, d, idx, access)
        PROVE  FALSE
    BY <1>2, <2>1 DEF Create
  <2>2. ASSUME NEW u \in Terminal, NEW d \in Block, NEW v \in Meaning,
               CreateFromRows(u, d, v)
        PROVE  FALSE
    BY <1>2, <1>3, <2>2 DEF CreateFromRows
  <2>3. ASSUME NEW d \in Block, NEW access \in {"VIEWER", "OWNER"},
               ConstructorThrows(d, access)
        PROVE  FALSE
    BY <1>2, <2>3 DEF ConstructorThrows, AccessWhenThrown
  <2>4. QED
    BY <1>9, <2>1, <2>2, <2>3 DEF CreateStep
<1>10. CASE CopyStep
  <2>1. ASSUME NEW s \in Terminal, NEW u \in Terminal, Copy(s, u) PROVE FALSE
    BY <1>2, <2>1 DEF Copy
  <2>2. ASSUME NEW s \in Terminal, NEW u \in Terminal, NEW d \in Block,
               NEW idx \in SUBSET Block, OwningCopy(s, u, d, idx)
        PROVE  FALSE
    BY <1>5, <2>2 DEF OwningCopy
  <2>3. ASSUME NEW s \in Terminal, NEW u \in Terminal, NEW d \in Block,
               AsFullMatrix(s, u, d)
        PROVE  FALSE
    BY <1>2, <1>3, <2>3 DEF AsFullMatrix
  <2>4. ASSUME NEW s \in Terminal, NEW c \in Block, ToArray(s, c) PROVE FALSE
    BY <1>2, <1>3, <2>4 DEF ToArray
  <2>5. QED
    BY <1>10, <2>1, <2>2, <2>3, <2>4 DEF CopyStep
<1>11. QED
  BY <1>6, <1>7, <1>8, <1>9, <1>10 DEF Next, ClientStep

(* A view goes stale only when the holder of its blocks lets go, whatever  *)
(* else is made, copied, converted, refused or dropped.                    *)
THEOREM ViewsLastAsLongAsHolders == Spec => OnlyHoldersInvalidate
<1>1. TerminalsInv /\ [Next]_vars =>
        [\A t \in Terminal : Made(t) /\ term'[t] = term[t] /\ Valid(t) /\ ~Valid(t)'
                               => HolderLetsGo(t)]_vars
  <2>1. SUFFICES ASSUME TerminalsInv, Next, NEW t \in Terminal,
                        Made(t), term'[t] = term[t], Valid(t), ~Valid(t)'
                 PROVE  HolderLetsGo(t)
    OBVIOUS
  <2>2. QED
    BY <2>1, StepInvalidates
<1>2. QED
  BY <1>1, InvariantHolds, PTL DEF Spec, OnlyHoldersInvalidate
=============================================================================
