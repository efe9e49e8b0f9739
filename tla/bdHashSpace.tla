---------------------------- MODULE bdHashSpace ----------------------------
(***************************************************************************)
(* The values stored under a hash (bdhash.cc).  Under each id there is a   *)
(* multimap from keys to entries; an entry with a secret may be renewed    *)
(* and deleted by whoever knows the secret, and one without may only be    *)
(* renewed, by anybody.                                                    *)
(***************************************************************************)
EXTENDS Integers, FiniteSets, SequencesExt, Lists

CONSTANTS
    HashIds,            \* a set of numbers: ids are compared
    Keys, Values, Secrets,
    NoSecret,           \* the empty string
    Lifetimes,
    MaxHashTime,        \* bound on the clock
    MaxHashEntries      \* bound on the entries under an id

ASSUME HashAssumption ==
    /\ HashIds \subseteq Nat
    /\ NoSecret \notin Secrets
    /\ Lifetimes \subseteq Nat
    /\ MaxHashTime \in Nat /\ MaxHashEntries \in Nat

VARIABLES
    mHashTable,         \* by id: the entries in their order
    hashNow,            \* time(NULL)
    hung                \* whether a call does not return

hashVars == <<mHashTable, hashNow, hung>>

\* What a caller says of an entry, and what is kept of it.
HashEntry == [mValue : Values, mSecret : Secrets \cup {NoSecret}, mLifetime : Lifetimes]
Stored == [key : Keys, mValue : Values, mSecret : Secrets \cup {NoSecret},
           mLifetime : Lifetimes, mStoreTS : 0 .. MaxHashTime]

HashTypeOK ==
    /\ DOMAIN mHashTable \subseteq HashIds
    /\ \A id \in DOMAIN mHashTable : mHashTable[id] \in Seq(Stored)
    /\ hashNow \in 0 .. MaxHashTime
    /\ hung \in BOOLEAN

KillTime(e) == e.mLifetime + e.mStoreTS

(******************************* bdHashSet *********************************)

\* Mutant: the secret is not compared.
SameValue(set, key, entry) ==
    {i \in DOMAIN set : set[i].key = key /\ set[i].mValue = entry.mValue}

\* sameSecret, under the key and with the value
Same(set, key, entry) ==
    {i \in DOMAIN set : /\ set[i].key = key
                        /\ set[i].mValue = entry.mValue
                        /\ set[i].mSecret = entry.mSecret}

\* Mutant: the last call counts.
AlwaysLonger(old, entry) == TRUE

\* Without a secret, only to increase the lifetime.
MayUpdate(old, entry) ==
    old.mSecret = NoSecret => entry.mLifetime + hashNow > KillTime(old)

\* A lifetime that is not increased is not an update, so that a second entry is made.
AddEntry(set, key, entry) ==
    LET updated == {i \in Same(set, key, entry) : MayUpdate(set[i], entry)}
        renew(old) == [old EXCEPT !.mStoreTS = hashNow, !.mLifetime = entry.mLifetime]
    IN  IF updated # {}
        THEN [i \in DOMAIN set |-> IF i \in updated THEN renew(set[i]) ELSE set[i]]
        ELSE Append(set, [key |-> key, mValue |-> entry.mValue, mSecret |-> entry.mSecret,
                          mLifetime |-> entry.mLifetime, mStoreTS |-> hashNow])

DeleteEntry(set, key, entry) ==
    LET same == {i \in Same(set, key, entry) : set[i].mSecret # NoSecret}
    IN  IF same = {} THEN set
        ELSE RemoveAt(set, CHOOSE i \in same : \A j \in same : i <= j)

Expired(e, maxAge) == hashNow - e.mStoreTS > maxAge \/ hashNow > KillTime(e)

cleanupHashSet(set, maxAge) == Kept(set, {i \in DOMAIN set : ~ Expired(set[i], maxAge)})

(******************************* bdHashSpace *******************************)

EntriesOf(id) == IF id \in DOMAIN mHashTable THEN mHashTable[id] ELSE <<>>

Put(id, set) ==
    mHashTable' = [i \in DOMAIN mHashTable \cup {id} |->
                     IF i = id THEN set ELSE mHashTable[i]]

addHash(id, key, entry) ==
    /\ ~ hung
    /\ Len(EntriesOf(id)) < MaxHashEntries
    /\ Put(id, AddEntry(EntriesOf(id), key, entry))
    /\ UNCHANGED <<hashNow, hung>>

deleteHash(id, key, entry) ==
    /\ ~ hung /\ id \in DOMAIN mHashTable
    /\ Put(id, DeleteEntry(EntriesOf(id), key, entry))
    /\ UNCHANGED <<hashNow, hung>>

\* What lies outside the range is to be erased, but the first of it never leaves the list
\* of what there is to erase, so that the call erases that one and goes on for ever.
cleanHashSpace(min, max, maxAge) ==
    /\ ~ hung
    /\ LET eraseList == {id \in DOMAIN mHashTable : id < min \/ max < id}
           erased == {id \in eraseList : \A other \in eraseList : id <= other}
           clean(id) == IF id \in eraseList THEN mHashTable[id]
                        ELSE cleanupHashSet(mHashTable[id], maxAge)
       IN  /\ mHashTable' = [id \in DOMAIN mHashTable \ erased |-> clean(id)]
           /\ hung' = (eraseList # {})
    /\ UNCHANGED hashNow

clearHash ==
    /\ ~ hung
    /\ mHashTable' = [id \in {} |-> <<>>]
    /\ UNCHANGED <<hashNow, hung>>

\* The process dies and is started again: nothing of it is on disk.
HashLost ==
    /\ mHashTable' = [id \in {} |-> <<>>] /\ hung' = FALSE
    /\ UNCHANGED hashNow

HashTime ==
    /\ hashNow' = IF hashNow < MaxHashTime THEN hashNow + 1 ELSE hashNow
    /\ UNCHANGED <<mHashTable, hung>>

\* Entries not older than maxAge; their lifetime does not matter to a search.
search(id, key, maxAge) ==
    LET set == EntriesOf(id)
    IN  Kept(set, {i \in DOMAIN set : set[i].key = key /\ hashNow - set[i].mStoreTS < maxAge})

HashInit == mHashTable = [id \in {} |-> <<>>] /\ hashNow = 0 /\ hung = FALSE

HashRuns ==
    \/ \E id \in HashIds, key \in Keys, entry \in HashEntry :
         addHash(id, key, entry) \/ deleteHash(id, key, entry)
    \/ \E min, max \in HashIds, maxAge \in 0 .. MaxHashTime : cleanHashSpace(min, max, maxAge)
    \/ clearHash \/ HashTime

HashNext == HashRuns \/ HashLost

HashSpec == HashInit /\ [][HashNext]_hashVars

(******************************* Properties ********************************)

\* Modify, with any flag, by one who says this of an entry.
Modify(entry) == \E id \in HashIds, key \in Keys :
    addHash(id, key, entry) \/ deleteHash(id, key, entry)

Found(id, key) == ToSet(search(id, key, MaxHashTime + 1))

\* Who changes or deletes an entry that has a secret says the same secret, however alike
\* the entries under the key are ("If there is a secret -> must include it to modify",
\* bdhash.cc:68).
SecretProtects ==
    [][\A id \in HashIds, key \in Keys : \A old \in Found(id, key) \ Found(id, key)' :
         old.mSecret # NoSecret =>
            \A entry \in HashEntry : Modify(entry) => entry.mSecret = old.mSecret
      ]_hashVars

\* An entry without secret stays till its time is over, whatever is added and deleted, and
\* its time may get longer but not shorter ("it cannot be deleted (must timeout), but can
\* be extended", bdhash.cc:67).
LivesOn(old, entries) ==
    \E new \in entries : /\ new.mValue = old.mValue
                         /\ new.mSecret = NoSecret
                         /\ KillTime(new) >= KillTime(old)

SecretlessKept ==
    [][\A id \in HashIds, key \in Keys : \A old \in Found(id, key) \ Found(id, key)' :
         old.mSecret = NoSecret /\ ~ LivesOn(old, Found(id, key)') =>
            \A entry \in HashEntry : ~ Modify(entry)
      ]_hashVars
=============================================================================
