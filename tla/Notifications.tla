---------------------------- MODULE Notifications ----------------------------
(***************************************************************************)
(* In-app notifications of one user: the workers that turn follow and      *)
(* engagement events into rows (internal/notifications/worker.go), and the *)
(* user's list and mark-read (service.go).                                 *)
(*                                                                         *)
(* Several pods share the two topics and a rebalance hands one's events to *)
(* another, so any worker may get any event, any number of times.  A row's *)
(* id is taken before it is inserted; ids of one worker increase, those of *)
(* two workers follow two clocks.                                          *)
(***************************************************************************)
EXTENDS Integers, Sequences, FiniteSets

CONSTANTS
  Workers,
  Events,      \* records with a kind, and whether actor and author are the same (own)
  MaxNote      \* bound on the ids of notifications

ASSUME NotesAssumption == MaxNote \in Nat

VARIABLES
  taken,     \* events whose evt:notif:{id} key is set
  hand,      \* the event each worker is busy with, {} or {e}
  noteId,    \* the id it has taken for the row, 0 before
  lastId,    \* the last id its generator gave
  notes,     \* the rows: <<id, event, worker>>, in the order of their INSERTs
  read,      \* ids with a read_at
  newest,    \* newest id of the last list the user got, 0 before
  listedIds, \* history: ids the user was shown
  missed     \* history: events taken by a worker that failed before the INSERT

workers == <<taken, hand, noteId, lastId, missed>>
user == <<read, newest, listedIds>>
notesVars == <<workers, notes, user>>

NoteIds == { notes[i].id : i \in DOMAIN notes }

NotesTypeOK ==
  /\ taken \subseteq Events /\ missed \subseteq taken
  /\ hand \in [Workers -> SUBSET Events] /\ \A w \in Workers : Cardinality(hand[w]) <= 1
  /\ noteId \in [Workers -> 0 .. MaxNote] /\ lastId \in [Workers -> 0 .. MaxNote]
  /\ notes \in Seq([id : 1 .. MaxNote, event : Events, worker : Workers])
  /\ read \subseteq NoteIds /\ listedIds \subseteq NoteIds /\ newest \in NoteIds \cup {0}

NotesInit ==
  /\ taken = {} /\ missed = {} /\ hand = [w \in Workers |-> {}]
  /\ noteId = [w \in Workers |-> 0] /\ lastId = [w \in Workers |-> 0]
  /\ notes = << >> /\ read = {} /\ newest = 0 /\ listedIds = {}

-----------------------------------------------------------------------------
AlwaysNew(e) == TRUE   \* mutant: the answer of Once is ignored
New(e) == e \notin taken

\* Unfollow, unlike, unretweet and what users do to their own tweets notify nobody.
Notifies(e) == e.kind \in {"follow", "like", "retweet"} /\ ~e.own

\* Once, and the decision whether there is anything to tell.
Take(w, e) ==
  /\ hand[w] = {} /\ New(e)
  /\ taken' = taken \cup {e}
  /\ hand' = [hand EXCEPT ![w] = IF Notifies(e) THEN {e} ELSE {}]
  /\ UNCHANGED <<noteId, lastId, missed, notes, user>>

Used == NoteIds \cup { noteId[w] : w \in Workers }

\* ids.Next(): later than the worker's own ids, different from all others.
NextNote(w, n) ==
  /\ hand[w] # {} /\ noteId[w] = 0
  /\ n > lastId[w] /\ n \notin Used
  /\ noteId' = [noteId EXCEPT ![w] = n] /\ lastId' = [lastId EXCEPT ![w] = n]
  /\ UNCHANGED <<taken, hand, missed, notes, user>>

Done(w) == hand' = [hand EXCEPT ![w] = {}] /\ noteId' = [noteId EXCEPT ![w] = 0]

InsertNote(w) ==
  /\ noteId[w] # 0
  /\ \E e \in hand[w] : notes' = Append(notes, [id |-> noteId[w], event |-> e, worker |-> w])
  /\ Done(w)
  /\ UNCHANGED <<taken, lastId, missed, user>>

\* The INSERT fails, or the worker dies: a redelivered event is not new any more.
Lose(w) ==
  /\ hand[w] # {}
  /\ missed' = missed \cup hand[w]
  /\ Done(w)
  /\ UNCHANGED <<taken, lastId, notes, user>>

-----------------------------------------------------------------------------
\* The client follows the list to its end.
ListNotes ==
  /\ NoteIds # {}
  /\ listedIds' = listedIds \cup NoteIds
  /\ newest' = CHOOSE n \in NoteIds : \A m \in NoteIds : m <= n
  /\ UNCHANGED <<workers, notes, read>>

Everything(id) == TRUE   \* mutant: no id <= $2
UpTo(id) == id <= newest

\* It marks what it was shown: everything up to the newest row of the list.
MarkRead ==
  /\ newest # 0
  /\ read' = read \cup { id \in NoteIds : UpTo(id) }
  /\ UNCHANGED <<workers, notes, newest, listedIds>>

NotesNext ==
  \/ \E w \in Workers : \/ \E e \in Events : Take(w, e)
                        \/ \E n \in 1 .. MaxNote : NextNote(w, n)
                        \/ InsertNote(w) \/ Lose(w)
  \/ ListNotes \/ MarkRead

NotesSpec == NotesInit /\ [][NotesNext]_notesVars

-----------------------------------------------------------------------------
RowsOf(e) == Cardinality({ i \in DOMAIN notes : notes[i].event = e })
InHand(e) == \E w \in Workers : e \in hand[w]

\* An event that was taken becomes exactly one notification, however often and to
\* whichever worker it is delivered, unless its worker failed in between: then it never
\* becomes one.
NotifiedOnce ==
  \A e \in Events :
    RowsOf(e) = IF Notifies(e) /\ e \in taken \ missed /\ ~InHand(e) THEN 1 ELSE 0

\* Marking the list as read hides a notification the user was never shown only when two
\* workers insert against the order of their ids: it came after a row with a higher id
\* that another worker wrote.
HiddenNeedsTwoWorkers ==
  \A i \in DOMAIN notes :
    notes[i].id \in read \ listedIds =>
      \E j \in 1 .. i - 1 : notes[j].id > notes[i].id /\ notes[j].worker # notes[i].worker
=============================================================================
