----------------------------- MODULE Terminals -----------------------------
(***************************************************************************)
(* Who owns the memory of terminals (terminal.cc).  An array terminal      *)
(* keeps raw pointers: to its data and, when it is sparse, to the column   *)
(* pointers and the row indices.  It deletes them when it is destroyed if  *)
(* its DATA_ACCESS is OWNER and leaves them alone if it is VIEWER; nothing *)
(* else keeps count.                                                       *)
(*                                                                         *)
(* The client is whoever calls new, binds a Java array or asks for a plain *)
(* copy: a runner, a converter, the JNI layer.  A block that was freed may *)
(* be handed out again, so a stale pointer is not told by where it points. *)
(***************************************************************************)
EXTENDS FiniteSets, Naturals

CONSTANTS Block,     \* addresses of memory blocks
          Terminal,  \* the terminals that may exist at one time
          Meaning,   \* what memory may hold
          Free,      \* what a block nobody was given holds
          None       \* no terminal

(* index: the column pointers and row indices of a sparse matrix, empty    *)
(* for a dense or diagonal one.  made is not in the code: what the data    *)
(* stood for when the terminal was made, or what it was copied from did.   *)
Record == [data : Block, index : SUBSET Block, access : {"VIEWER", "OWNER"},
           made : Meaning]

ASSUME TerminalsAssumption == Free \notin Meaning /\ None \notin Record

VARIABLES heap,    \* what every block holds
          client,  \* the blocks the client has to free
          term     \* the terminals

vars == <<heap, client, term>>

Made(t)   == term[t] # None
Owner(t)  == Made(t) /\ term[t].access = "OWNER"
Blocks(r) == {r.data} \cup r.index

(* The terminal still shows what it was made from.                         *)
Valid(t) == \A b \in Blocks(term[t]) : heap[b] = term[t].made

TypeOK ==
  /\ heap \in [Block -> Meaning \cup {Free}]
  /\ client \subseteq Block
  /\ term \in [Terminal -> Record \cup {None}]

Init ==
  /\ heap = [b \in Block |-> Free]
  /\ client = {}
  /\ term = [t \in Terminal |-> None]

Holding(bs, v) == [b \in Block |-> IF b \in bs THEN v ELSE heap[b]]
FreeBlocks     == {b \in Block : heap[b] = Free}

(* Where a matrix can keep its arrays: one block, or one and two more.     *)
IsLayout(d, idx) == d \notin idx /\ Cardinality(idx) \in {0, 2}

-----------------------------------------------------------------------------
ClientAllocates(b, v) ==
  /\ heap[b] = Free
  /\ heap' = Holding({b}, v)
  /\ client' = client \cup {b}
  /\ UNCHANGED term

ClientFrees(b) ==
  /\ b \in client
  /\ heap' = Holding({b}, Free)
  /\ client' = client \ {b}
  /\ UNCHANGED term

(* create(...): an OWNER takes its blocks over from the client, a VIEWER   *)
(* looks at blocks the client keeps.                                       *)
Create(t, d, idx, access) ==
  /\ ~Made(t)
  /\ IsLayout(d, idx)
  /\ {d} \cup idx \subseteq client
  /\ \A b \in idx : heap[b] = heap[d]
  /\ term' = [term EXCEPT ![t] = [data |-> d, index |-> idx, access |-> access,
                                  made |-> heap[d]]]
  /\ client' = IF access = "OWNER" THEN client \ ({d} \cup idx) ELSE client
  /\ UNCHANGED heap

(* From an array of rows or a list of lists: the constructor allocates and *)
(* owns, the rows stay the caller's.                                       *)
CreateFromRows(t, d, v) ==
  /\ ~Made(t)
  /\ heap[d] = Free
  /\ heap' = Holding({d}, v)
  /\ term' = [term EXCEPT ![t] = [data |-> d, index |-> {}, access |-> "OWNER",
                                  made |-> v]]
  /\ UNCHANGED client

(* Mutant: the constructor sets the access first.                          *)
AccessSetFirst(access) == access

(* A null pointer makes the constructor throw, and the base class is       *)
(* destroyed with what has been set so far; the access is set last and is  *)
(* VIEWER till then.                                                       *)
AccessWhenThrown(access) == "VIEWER"

ConstructorThrows(d, access) ==
  /\ d \in client
  /\ heap' = IF AccessWhenThrown(access) = "OWNER" THEN Holding({d}, Free) ELSE heap
  /\ UNCHANGED <<client, term>>

(* copy(): the same pointers, as a VIEWER.                                 *)
Copy(t, u) ==
  /\ Made(t) /\ ~Made(u)
  /\ term' = [term EXCEPT ![u] = [term[t] EXCEPT !.access = "VIEWER"]]
  /\ UNCHANGED <<heap, client>>

(* createOwningCopy and createComplexOwningCopy; a copy of what is not     *)
(* there any more is not asked for.                                        *)
OwningCopy(t, u, d, idx) ==
  /\ Made(t) /\ ~Made(u) /\ Valid(t)
  /\ IsLayout(d, idx)
  /\ {d} \cup idx \subseteq FreeBlocks
  /\ idx = {} <=> term[t].index = {}
  /\ heap' = Holding({d} \cup idx, heap[term[t].data])
  /\ term' = [term EXCEPT ![u] = [data |-> d, index |-> idx, access |-> "OWNER",
                                  made |-> term[t].made]]
  /\ UNCHANGED client

(* asFullOGRealDenseMatrix, asFullOGComplexDenseMatrix: always a new one.  *)
AsFullMatrix(t, u, d) ==
  /\ Made(t) /\ ~Made(u) /\ Valid(t)
  /\ heap[d] = Free
  /\ heap' = Holding({d}, heap[term[t].data])
  /\ term' = [term EXCEPT ![u] = [data |-> d, index |-> {}, access |-> "OWNER",
                                  made |-> term[t].made]]
  /\ UNCHANGED client

(* toReal8Array and the other plain copies: the caller's to delete.        *)
ToArray(t, b) ==
  /\ Made(t) /\ Valid(t)
  /\ heap[b] = Free
  /\ heap' = Holding({b}, heap[term[t].data])
  /\ client' = client \cup {b}
  /\ UNCHANGED term

(* Mutant: the access is not looked at for the indices.                    *)
DeletedAnyway(r) == IF r.access = "OWNER" THEN Blocks(r) ELSE r.index

(* The destructors: ~OGSparseMatrix, then ~OGArray.                        *)
Deleted(r) == IF r.access = "OWNER" THEN Blocks(r) ELSE {}

(* The last reference to a terminal goes.                                  *)
Drop(t) ==
  /\ Made(t)
  /\ heap' = Holding(Deleted(term[t]), Free)
  /\ term' = [term EXCEPT ![t] = None]
  /\ UNCHANGED client

-----------------------------------------------------------------------------
ClientStep == \/ \E b \in Block, v \in Meaning : ClientAllocates(b, v)
              \/ \E b \in Block : ClientFrees(b)

CreateStep ==
  \/ \E t \in Terminal, d \in Block, idx \in SUBSET Block,
        access \in {"VIEWER", "OWNER"} : Create(t, d, idx, access)
  \/ \E t \in Terminal, d \in Block, v \in Meaning : CreateFromRows(t, d, v)
  \/ \E d \in Block, access \in {"VIEWER", "OWNER"} : ConstructorThrows(d, access)

CopyStep ==
  \/ \E t, u \in Terminal : Copy(t, u)
  \/ \E t, u \in Terminal, d \in Block, idx \in SUBSET Block : OwningCopy(t, u, d, idx)
  \/ \E t, u \in Terminal, d \in Block : AsFullMatrix(t, u, d)
  \/ \E t \in Terminal, b \in Block : ToArray(t, b)

Next == ClientStep \/ CreateStep \/ CopyStep \/ \E t \in Terminal : Drop(t)

Spec == Init /\ [][Next]_vars

-----------------------------------------------------------------------------
(***************************************************************************)
(* Every block in use is somebody's to free: the client's or that of one   *)
(* owning terminal.  So nothing is leaked when the client and all the      *)
(* terminals are gone (~OGArray and ~OGSparseMatrix delete all there is).  *)
(***************************************************************************)
NothingIsLost ==
  \A b \in Block : heap[b] # Free =>
    b \in client \/ \E t \in Terminal : Owner(t) /\ b \in Blocks(term[t])

(***************************************************************************)
(* No block has two holders, and none is freed while it has one: owners    *)
(* share nothing with each other or with the client, so that no delete[]   *)
(* of a destructor is the second one, not even after a constructor threw.  *)
(***************************************************************************)
OneHolder ==
  /\ \A b \in client : heap[b] # Free
  /\ \A t \in Terminal : Owner(t) =>
       /\ \A b \in Blocks(term[t]) : b \notin client
       /\ \A u \in Terminal \ {t} : Owner(u) =>
            Blocks(term[t]) \cap Blocks(term[u]) = {}

(***************************************************************************)
(* An owner shows what it was made from for as long as it lives, whatever  *)
(* became of the terminal it was copied from.  Viewers need not.           *)
(***************************************************************************)
OwnersKeepTheirData == \A t \in Terminal : Owner(t) => Valid(t)

(* The inductive invariant: that no block is lost and none held twice need *)
(* each other, and that owners keep their data needs the second.           *)
TerminalsInv == TypeOK /\ NothingIsLost /\ OneHolder /\ OwnersKeepTheirData

(***************************************************************************)
(* A terminal goes stale in one way only: whoever holds its blocks lets    *)
(* go, the client or an owning terminal.  Making, copying, converting and  *)
(* dropping other terminals does not disturb it.                           *)
(***************************************************************************)
HolderLetsGo(t) ==
  \E b \in Blocks(term[t]) :
    \/ b \in client \ client' /\ heap'[b] = Free
    \/ \E u \in Terminal : Owner(u) /\ b \in Blocks(term[u]) /\ term'[u] = None

OnlyHoldersInvalidate ==
  [][\A t \in Terminal : Made(t) /\ term'[t] = term[t] /\ Valid(t) /\ ~Valid(t)'
                           => HolderLetsGo(t)]_vars
=============================================================================
