------------------------------ MODULE StoreCalls ------------------------------
(***************************************************************************)
(* What the calls of a repository collection do to its documents.  Both     *)
(* implementations of database.Store are built from a few variants of five  *)
(* calls, so a collection of a backend is a POLICY: the set of traits its   *)
(* methods have.                                                            *)
(*                                                                         *)
(*   fresh      an insert refuses an ID that is stored                      *)
(*   distinct   an insert refuses a key that is stored                      *)
(*   indexed    so does an update, whose key belongs to another document    *)
(*   folds      keys that differ in case only are the same for distinct     *)
(*   says       a refused insert answers ErrConflict, else a raw error      *)
(*   saysUpdate the same of a refused update                                *)
(*   creates    an update of a missing document stores it                   *)
(*   silent     an update of a missing document answers without an error    *)
(*   mergesUpdate, mergesUpsert  the write keeps the stored optional field   *)
(*              when the new document omits it ($set of an omitempty field) *)
(*   byKey      an upsert addresses the document by its key, not by its ID  *)
(*   either     an upsert addresses it by its ID or by its key              *)
(*   evicts     an upsert removes the other documents of its key            *)
(*   setsID     an upsert writes the ID too, which no update may change     *)
(*   keepsID    an upsert keeps the ID of the document it finds             *)
(*   idempotent a delete of a missing document answers without an error     *)
(*                                                                         *)
(* A document is its ID, the field it is looked up or kept unique by (the   *)
(* other fields of a compound index are fixed), and one optional field.  A  *)
(* finder returns the documents of the table that have the ID or the key.   *)
(***************************************************************************)
EXTENDS FiniteSets

CONSTANTS
    Fold,      \* a key to its lower-case form
    NoKey,     \* the empty key, which no lookup matches
    Omitted    \* an optional field that is empty

Outcome(answer, table) == [answer |-> answer, table |-> table]

SameKey(a, b) == a # NoKey /\ a = b

Others(table, doc) == {s \in table : s.id # doc.id}
At(table, doc)     == {s \in table : s.id = doc.id}

\* The documents an insert may not join.
Clashing(p, table, doc) ==
    {s \in table :
        \/ "fresh" \in p /\ s.id = doc.id
        \/ "distinct" \in p /\ s.key = doc.key
        \/ {"distinct", "folds"} \subseteq p /\ Fold[s.key] = Fold[doc.key]}

Refusal(p, trait) == IF trait \in p THEN "conflict" ELSE "failed"

\* The document a write of doc leaves in the place of the stored one.
Written(p, trait, stored, doc) ==
    [doc EXCEPT !.opt = IF trait \in p /\ @ = Omitted THEN stored.opt ELSE @]

Insert(p, table, doc) ==
    IF Clashing(p, table, doc) # {}
    THEN {Outcome(Refusal(p, "says"), table)}
    ELSE {Outcome("ok", Others(table, doc) \cup {doc})}

Update(p, table, doc) ==
    IF At(table, doc) = {}
    THEN {IF "creates" \in p THEN Outcome("ok", table \cup {doc})
          ELSE IF "silent" \in p THEN Outcome("ok", table)
          ELSE Outcome("notFound", table)}
    ELSE IF "indexed" \in p /\ \E s \in Others(table, doc) : s.key = doc.key
    THEN {Outcome(Refusal(p, "saysUpdate"), table)}
    ELSE {Outcome("ok", (table \ {s}) \cup {Written(p, "mergesUpdate", s, doc)}) : s \in At(table, doc)}

\* The documents an upsert may find; UpdateOne writes one of them.
Addressed(p, table, doc) ==
    {s \in table :
        \/ "byKey" \notin p /\ s.id = doc.id
        \/ p \cap {"byKey", "either"} # {} /\ SameKey(s.key, doc.key)}

Upsert(p, table, doc) ==
    LET found == Addressed(p, table, doc)
        kept  == IF "evicts" \in p
                 THEN {s \in table : ~SameKey(s.key, doc.key) /\ ("byKey" \in p \/ s.id # doc.id)}
                 ELSE table
    IN IF "evicts" \in p \/ found = {}
       THEN {Outcome("ok", kept \cup {doc})}
       ELSE {IF "setsID" \in p /\ s.id # doc.id
             THEN Outcome("failed", table)
             ELSE Outcome("ok",
                          (table \ {s}) \cup
                          {[Written(p, "mergesUpsert", s, doc) EXCEPT
                              !.id = IF "keepsID" \in p THEN s.id ELSE @]}) : s \in found}

Delete(p, table, doc) ==
    IF At(table, doc) = {}
    THEN {Outcome(IF "idempotent" \in p THEN "ok" ELSE "notFound", table)}
    ELSE {Outcome("ok", table \ {s}) : s \in At(table, doc)}

\* DeleteByRoute: every document of a key.
Clear(table, doc) == {Outcome("ok", {s \in table : s.key # doc.key})}

===============================================================================
