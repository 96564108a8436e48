---------------------------- MODULE PolicyCache ----------------------------
(***************************************************************************)
(* packages/nbc/src/bind-policy: one process-wide cache of compiled bind   *)
(* policies, first in first out, in front of one Ajv instance that keeps   *)
(* every $id it was ever given.  A policy is compiled when it is exposed   *)
(* and looked up again at the bind, for any session of the process.        *)
(***************************************************************************)
EXTENDS Integers, Sequences, SequencesExt

CONSTANTS
    Documents,  \* bind policies: [content, root, strict, id]
    MaxCache    \* MAX_COMPILE_CACHE

ASSUME CacheAssumption == MaxCache \in Nat \ {0}

\* The root, the strictness and the $id of a document are read off its content.
ASSUME ContentAssumption ==
    \A d, e \in Documents : d.content = e.content => d = e

VARIABLES
    compileCache,   \* [key, compiled] in order of insertion
    ids,            \* $ids the Ajv instance has registered
    admitted        \* policies some expose got past the check

cacheVars == <<compileCache, ids, admitted>>

\* Slip: a policy is known by its $id, if it has one.
KeyById(doc) == IF doc.id = {} THEN doc.content ELSE CHOOSE id \in doc.id : TRUE

\* stableStringify: the content, whatever the order of the keys.
Key(doc) == doc.content

Hits(doc) == {i \in DOMAIN compileCache : compileCache[i].key = Key(doc)}

\* Ajv2020, strict: refuses unknown keywords, and an $id it already has when it
\* comes in another copy of the document, as the wire and SQLite give it.
AjvCompiles(doc) == doc.strict /\ doc.id \cap ids = {}

\* getBindPayloadValidator returns one (guardBindPayloadRootSchema first).
HasValidator(doc) == doc.root = "object" /\ (Hits(doc) # {} \/ AjvCompiles(doc))

\* Slip: one entry too many is kept.
RoomLate == IF Len(compileCache) > MaxCache THEN Tail(compileCache) ELSE compileCache

Room == IF Len(compileCache) >= MaxCache THEN Tail(compileCache) ELSE compileCache

\* getBindPayloadValidator; a schema that does not compile has left its $id behind.
GetBindPayloadValidator(doc) ==
    IF doc.root # "object" \/ Hits(doc) # {} THEN UNCHANGED <<compileCache, ids>>
    ELSE /\ ids' = ids \cup doc.id
         /\ compileCache' = IF AjvCompiles(doc)
                            THEN Append(Room, [key |-> Key(doc), compiled |-> doc.content])
                            ELSE compileCache

CacheInit == compileCache = <<>> /\ ids = {} /\ admitted = {}

\* validateBindPolicyAtExpose (the policy is active).
ValidateAtExpose ==
    \E doc \in Documents :
        /\ GetBindPayloadValidator(doc)
        /\ admitted' = IF HasValidator(doc) THEN admitted \cup {doc} ELSE admitted

\* validateNbcBindPayloadForPort of a port exposed under the policy.
ValidateAtBind ==
    \E doc \in admitted : GetBindPayloadValidator(doc) /\ UNCHANGED admitted

CacheNext == ValidateAtExpose \/ ValidateAtBind

CacheSpec == CacheInit /\ [][CacheNext]_cacheVars
-----------------------------------------------------------------------------
\* A policy that was let through at the expose still has its validator at the
\* bind, whatever other sessions exposed in between, unless it has an $id and
\* was evicted; a validator found in the cache is that of the policy asked for,
\* and the cache is bounded.
AdmittedStaysUsable ==
    /\ Len(compileCache) <= MaxCache
    /\ \A doc \in Documents, i \in DOMAIN compileCache :
          i \in Hits(doc) => compileCache[i].compiled = doc.content
    /\ \A doc \in admitted : HasValidator(doc) \/ (doc.id # {} /\ Hits(doc) = {})
=============================================================================
