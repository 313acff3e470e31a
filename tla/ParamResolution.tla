--------------------------- MODULE ParamResolution ---------------------------
(***************************************************************************)
(* Parameter resolution and the per-object key pairs of RequestTracker    *)
(* (backend/requestTracker.go): GetParams and GetParam aggregate a        *)
(* machine's params with those of its profiles, its stage's profiles and  *)
(* the global profile, first hit wins, and decrypt Secure params with the *)
(* private key of the object each value came from; PrivateKeyFor creates *)
(* that key on first use and DeleteKeyFor removes it.                     *)
(*                                                                         *)
(* The stores are read under the request's locks and do not change here; *)
(* the secrets store, under secretsMux, does.  A value is identified by   *)
(* the object and the name it is stored under; a Secure value is stored  *)
(* as a ciphertext encrypted to its owner's key.                       *)
(***************************************************************************)
EXTENDS Naturals, Sequences

CONSTANTS
    Machine,    \* the machine whose params are resolved
    Profiles,   \* profiles in the store
    Global,     \* rt.dt.GlobalProfileName
    Missing,    \* a profile name no profile has
    Stage,      \* the stage in the store
    NoStage,    \* Machine.Stage = ""
    Names,      \* param names
    MaxList,    \* longest Machine.Profiles
    MaxStageList  \* longest Stage.Profiles

Objs == {Machine} \cup Profiles

\* A Param definition: none, or one that is Secure or not.
Defs == {"none", "plain", "secure"}

\* The key an object has in the secrets store: none, the key its stored
\* Secure values were encrypted to, or one generated since.  Every
\* generated key differs from every earlier one, so all keys made after
\* the first are one value here.
NoKey == 0
OldKey == 1
FreshKey == 2
Keys == {NoKey, OldKey, FreshKey}

\* A value is a record: the object and name it was stored under, and
\* the key it is encrypted to (NoKey: not encrypted).  None is the
\* absence of a value.
None == [of |-> Missing, name |-> Missing, enc |-> NoKey]

ASSUME ParamAssumption ==
    /\ Global \in Profiles
    /\ Machine \notin Profiles /\ Missing \notin Objs \cup Names
    /\ NoStage \notin {Stage, Missing}
    /\ MaxList \in Nat /\ MaxStageList \in Nat

Lists(S, max) == UNION {[1 .. n -> S] : n \in 0 .. max}

VARIABLES
    set,          \* set[o]: the names object o has a param for
    mProfiles,    \* Machine.Profiles
    mStage,       \* Machine.Stage: the stage, a name no stage has, or ""
    sProfiles,    \* Stage.Profiles
    def,          \* the params store: def[k]
    keys          \* secrets store: the key of each object

store == <<set, mProfiles, mStage, sProfiles, def>>
vars == <<store, keys>>

TypeOK ==
    /\ set \in [Objs -> SUBSET Names]
    /\ mProfiles \in Lists(Profiles \cup {Missing}, MaxList)
    /\ mStage \in {Stage, Missing, NoStage}
    /\ sProfiles \in Lists(Profiles \cup {Missing}, MaxStageList)
    /\ def \in [Names -> Defs]
    /\ keys \in [Objs -> Keys]

\* What an object stores under a name: its value, encrypted to its
\* first key when the param is Secure (spec invariant 6).
Stored(o, k) == [of |-> o, name |-> k, enc |-> IF def[k] = "secure" THEN OldKey ELSE NoKey]

\* Any stores; an object holding a Secure value has the key it was
\* encrypted to.
Init ==
    /\ set \in [Objs -> SUBSET Names]
    /\ mProfiles \in Lists(Profiles \cup {Missing}, MaxList)
    /\ mStage \in {Stage, Missing, NoStage}
    /\ sProfiles \in Lists(Profiles \cup {Missing}, MaxStageList)
    /\ def \in [Names -> Defs]
    /\ keys \in [Objs -> {NoKey, OldKey}]
    /\ \A o \in Objs : (\E k \in set[o] : def[k] = "secure") => keys[o] = OldKey

-----------------------------------------------------------------------------
(* getAggParams.                                                           *)

\* The names of a list that rt.Find finds, in order: SelectSeq written as
\* its fold, a recursive function the proofs can unfold.
Found(l) ==
    LET F[i \in 0 .. Len(l)] ==
          IF i = 0 THEN << >>
          ELSE IF l[i] \in Profiles THEN Append(F[i - 1], l[i]) ELSE F[i - 1]
    IN  F[Len(l)]

\* subObjs: the machine's profiles, then its stage's profiles if it names
\* a stage that exists, then the global profile.
SubObjs ==
    Found(mProfiles)
    \o (IF mStage = Stage THEN Found(sProfiles) ELSE <<>>)
    \o <<Global>>

\* A sources fold in which each sub-object overwrites what an earlier one set.
AggSourcesLastWins(subs) ==
    LET f[i \in 0 .. Len(subs)] ==
          IF i = 0 THEN [k \in Names |-> IF k \in set[Machine] THEN Machine ELSE Missing]
          ELSE [k \in Names |-> IF k \in set[subs[i]] THEN subs[i] ELSE f[i - 1][k]]
    IN  f[Len(subs)]

\* sources after the object's own params and the first i sub-objects: a
\* name is taken from a sub-object only if no earlier one had it.
AggSources(subs) ==
    LET f[i \in 0 .. Len(subs)] ==
          IF i = 0 THEN [k \in Names |-> IF k \in set[Machine] THEN Machine ELSE Missing]
          ELSE [k \in Names |->
                  IF f[i - 1][k] = Missing /\ k \in set[subs[i]] THEN subs[i]
                  ELSE f[i - 1][k]]
    IN  f[Len(subs)]

\* The sources of GetParams(Machine, aggregate, _): name -> object, or
\* Missing for a name no object has.
Sources(aggregate) ==
    IF aggregate THEN AggSources(SubObjs) ELSE AggSources(<<>>)

-----------------------------------------------------------------------------
(* decryptParam and the key pairs.                                         *)

\* The objects PrivateKeyFor is called for: the sources of the Secure
\* names decrypted.
Decrypting(src, ks, decrypt) ==
    IF decrypt THEN {src[k] : k \in {x \in ks : src[x] # Missing /\ def[x] = "secure"}}
    ELSE {}

\* A PrivateKeyFor whose save replaces the whole secrets store.
KeysAfterOnly(os) == [o \in os |-> IF keys[o] = NoKey THEN FreshKey ELSE keys[o]]

\* PrivateKeyFor on each of them: a missing key is generated and saved.
KeysAfter(os) == [o \in Objs |-> IF o \in os /\ keys[o] = NoKey THEN FreshKey ELSE keys[o]]

\* A decryptParam given the queried object instead of the source.
DecryptWithObj(src, k, v, ks, decrypt) ==
    IF decrypt /\ def[k] = "secure" /\ v.enc # NoKey /\ v.of = Machine /\ v.enc = ks[Machine]
    THEN [v EXCEPT !.enc = NoKey]
    ELSE v

\* decryptParam of the value of k from src, with the keys ks: a value of a
\* Secure param that decrypts with its source's key is returned in the
\* clear; any other value is returned as it is.
Decrypt(src, k, v, ks, decrypt) ==
    IF decrypt /\ def[k] = "secure" /\ v.enc # NoKey /\ v.of = src /\ v.enc = ks[src]
    THEN [v EXCEPT !.enc = NoKey]
    ELSE v

\* GetParams(Machine, aggregate, decrypt): name -> value, or None.
GetParamsResult(aggregate, decrypt) ==
    LET src == Sources(aggregate)
        ks  == KeysAfter(Decrypting(src, Names, decrypt))
    IN  [k \in Names |->
           IF src[k] = Missing THEN None
           ELSE Decrypt(src[k], k, Stored(src[k], k), ks, decrypt)]

\* AsParam(pobj).DefaultValue(): the default declared by the Param.
Default(k) == [of |-> Missing, name |-> k, enc |-> NoKey]

\* GetParam(Machine, key, aggregate, decrypt): the value, decrypted with
\* its source's key; else, when aggregating and the Param exists, its
\* default; else None.

GetParamResult(key, aggregate, decrypt) ==
    LET src == Sources(aggregate)
        ks  == KeysAfter(Decrypting(src, {key}, decrypt))
    IN  IF src[key] # Missing
        THEN Decrypt(src[key], key, Stored(src[key], key), ks, decrypt)
        ELSE IF aggregate /\ def[key] # "none" THEN Default(key)
        ELSE None

GetParams(aggregate, decrypt) ==
    LET os == Decrypting(Sources(aggregate), Names, decrypt)
    IN  /\ keys' = KeysAfter(os)
        /\ UNCHANGED store

GetParam(key, aggregate, decrypt) ==
    LET os == Decrypting(Sources(aggregate), {key}, decrypt)
    IN  /\ keys' = KeysAfter(os)
        /\ UNCHANGED store

\* PrivateKeyFor / PublicKeyFor: under secretsMux, load the key, or
\* rotateKeyFor a new one and save it.
KeyFor(o) ==
    /\ keys' = KeysAfter({o})
    /\ UNCHANGED store

\* DeleteKeyFor: remove the object's key from the secrets store.
DeleteKeyFor(o) ==
    /\ keys[o] # NoKey
    /\ keys' = [keys EXCEPT ![o] = NoKey]
    /\ UNCHANGED store

Next ==
    \/ \E a, d \in BOOLEAN : GetParams(a, d)
    \/ \E k \in Names, a, d \in BOOLEAN : GetParam(k, a, d)
    \/ \E o \in Objs : KeyFor(o) \/ DeleteKeyFor(o)

Spec == Init /\ [][Next]_vars

-----------------------------------------------------------------------------
(* Properties.                                                             *)

\* The order of spec 4.6 and universal invariant 5, read from the spec: the
\* object itself, the profiles it lists that exist, the profiles of the
\* stage it names if that exists, the global profile.
SpecOrder(aggregate) ==
    <<Machine>>
    \o (IF aggregate
        THEN Found(mProfiles)
             \o (IF mStage = Stage THEN Found(sProfiles) ELSE <<>>)
             \o <<Global>>
        ELSE <<>>)

\* The first object of an order that has k, or Missing.
FirstHit(order, k) ==
    LET hits == {i \in 1 .. Len(order) : k \in set[order[i]]}
    IN  IF hits = {} THEN Missing
        ELSE order[CHOOSE i \in hits : \A j \in hits : i <= j]

\* Invariant 5: GetParams and GetParam without decryption return, for
\* every name, the value of the first object in the order that has it and
\* record that object as its source; GetParam falls back to the default
\* only when aggregating and no object has the name.
AggregationOrder ==
    \A a \in BOOLEAN, k \in Names :
        LET hit == FirstHit(SpecOrder(a), k)
        IN  /\ Sources(a)[k] = hit
            /\ GetParamsResult(a, FALSE)[k] = IF hit = Missing THEN None ELSE Stored(hit, k)
            /\ GetParamResult(k, a, FALSE) =
                  IF hit # Missing THEN Stored(hit, k)
                  ELSE IF a /\ def[k] # "none" THEN Default(k) ELSE None

\* Invariant 6, the secure round-trip: a Secure value stored encrypted to
\* the current key of the object it is resolved from comes back in the
\* clear from GetParams and GetParam with decrypt set, whether it is the
\* machine's own or inherited from a profile.
SecureRoundTrip ==
    \A a \in BOOLEAN, k \in Names :
        LET o == Sources(a)[k]
        IN  (o # Missing /\ def[k] = "secure" /\ keys[o] = Stored(o, k).enc) =>
               /\ GetParamsResult(a, TRUE)[k] = [Stored(o, k) EXCEPT !.enc = NoKey]
               /\ GetParamResult(k, a, TRUE) = [Stored(o, k) EXCEPT !.enc = NoKey]

\* decryptParam returns no Secure value still encrypted: violated once
\* DeleteKeyFor has dropped the key a stored ciphertext was made for, as
\* decryptParam then makes a new key and returns the ciphertext unchanged.
NoCiphertextReturned ==
    \A a \in BOOLEAN, k \in Names : GetParamsResult(a, TRUE)[k].enc = NoKey

=============================================================================
