------------------------ MODULE ConfigProcess_proofs ------------------------
(***************************************************************************)
(* Theorems about ConfigProcess, for any settings, files and environment:  *)
(* whatever the order in which the variables are tried, a service that     *)
(* starts has the overrides in force, and it fails for a reason only.  At  *)
(* the end the theorems about TlsAssets, which a service also goes through *)
(* at its start, for any number of starts: crashes, failures and deletions *)
(* leave nothing behind that does not fit together or cannot be repaired.  *)
(***************************************************************************)
EXTENDS ConfigProcess, TlsAssets, FiniteSetTheorems, TLAPS

\* The configuration is the file's until the map is put back.
FileInv ==
  /\ loaded \in Files \/ (loaded = Blank /\ pc \in {"load", "failed"})
  /\ pc = "load" => config = Blank
  /\ pc \in {"marshal", "override"} => config = loaded

\* An entry of the map is overridden by the variable of its name, if that has had
\* its turn and the name stands for this setting, and as in the file otherwise.
Entry(s) ==
  IF NameOf[s] \in SetVars \ pending /\ names[NameOf[s]] = s
  THEN /\ s \notin Slashed
       /\ configMap[s] = ConvertToType(AsJson(loaded[s]), env[NameOf[s]])
       /\ configMap[s][1] \notin {"none", "panic"}
  ELSE configMap[s] = AsJson(loaded[s])

MapInv ==
  pc \in {"override", "level", "done"} =>
    names \in BuildOverrideNames /\ \A s \in Settings : Entry(s)

\* What has been put back fits, and is what the map has.
StoredInv ==
  pc \in {"level", "done"} =>
    /\ pending = {}
    /\ \A s \in Settings :
         /\ Fits(TypeOf[s], configMap[s]) /\ configMap[s] # <<"nan">>
         /\ config[s] = IF configMap[s][1] = "null" THEN loaded[s] ELSE configMap[s]

\* The inductive invariant.
IInv == TypeOK /\ FileInv /\ MapInv /\ StoredInv /\ OverridesTakeEffect /\ OutcomeDecided

-----------------------------------------------------------------------------
(* The pieces *)

\* A value goes to JSON as what it is, and comes back so but for large numbers.
LEMMA JsonKeeps ==
  ASSUME NEW type \in Types, NEW value, Typed(type, value)
  PROVE  /\ AsJson(value)[1] = value[1] /\ AsJson(value)[1] \notin {"nan", "none", "panic"}
         /\ value[1] = "null" <=> value = <<"null">>
         /\ value[1] = "null" => AsJson(value) = value
         /\ AsJson(value) = value \/ (value[1] = "num" /\ ~Exact(value[2]))
         /\ type \notin {"int", "uint"} => Fits(type, AsJson(value))
BY ConfigAssumption DEF Types, Typed, AsJson, Rounded, Exact, Fits

\* The conversion panics for null only, and fails for what is no flag or number.
LEMMA ConvertFails ==
  ASSUME NEW type \in Types, NEW value, Typed(type, value), NEW text \in Texts
  PROVE  LET new == ConvertToType(AsJson(value), text) IN
         /\ new[1] = "panic" => value = <<"null">>
         /\ new[1] = "none" => \/ type = "flag" /\ FlagOf[text] = <<"none">>
                               \/ type = "real" /\ NumberOf[text][1] = "none"
                               \/ type \in {"int", "uint"} /\ ~Fits(type, AsJson(NumberOf[text]))
BY ConfigAssumption DEF Types, Typed, AsJson, ConvertToType, Fits

\* A conversion that succeeds and fits gives what the text means for the field,
\* which is then of a type that can be overridden by it.
LEMMA ConvertFits ==
  ASSUME NEW s \in Settings, NEW text \in Texts, Typed(TypeOf[s], loaded[s]),
         s \notin Slashed
  PROVE  LET new == ConvertToType(AsJson(loaded[s]), text) IN
         /\ new[1] \notin {"none", "panic"} /\ Fits(TypeOf[s], new) /\ new # <<"nan">>
              => new = Meaning(TypeOf[s], text) /\ new[1] # "null" /\ ~Unacceptable(s, text)
         /\ new[1] \notin {"none", "panic"} /\ (~Fits(TypeOf[s], new) \/ new = <<"nan">>)
              => Unacceptable(s, text)
<1>1. SUFFICES ASSUME NEW new, new = ConvertToType(AsJson(loaded[s]), text)
                PROVE  LET fits == Fits(TypeOf[s], new) /\ new # <<"nan">> IN
                       new[1] \notin {"none", "panic"} =>
                         IF fits THEN /\ new = Meaning(TypeOf[s], text) /\ new[1] # "null"
                                      /\ ~Unacceptable(s, text)
                         ELSE Unacceptable(s, text)
  OBVIOUS
<1>2. CASE loaded[s] = <<"null">>
  BY <1>1, <1>2 DEF AsJson, ConvertToType
<1>3. CASE TypeOf[s] \in {"text", "list", "ints"} /\ loaded[s][1] = TypeOf[s]
  <2>1. new = <<IF TypeOf[s] = "text" THEN "text" ELSE "list", text>>
    BY <1>1, <1>3 DEF AsJson, ConvertToType
  <2> QED
    BY <1>3, <2>1 DEF Fits, Meaning, Unacceptable
<1>4. CASE TypeOf[s] = "flag" /\ loaded[s][1] = "flag"
  <2>1. new = FlagOf[text]
    BY <1>1, <1>4 DEF AsJson, ConvertToType
  <2>2. new \in {<<"none">>} \union ({"flag"} \X BOOLEAN)
    BY <2>1, ConfigAssumption
  <2> QED
    BY <1>4, <2>1, <2>2 DEF Fits, Meaning, Unacceptable
<1>5. CASE TypeOf[s] \in {"int", "uint", "real"} /\ loaded[s][1] \in {"num", "fraction"}
  <2>1. new = AsJson(NumberOf[text])
    BY <1>1, <1>5 DEF AsJson, ConvertToType
  <2>2. \/ NumberOf[text] \in {<<"none">>, <<"nan">>} \union ({"num"} \X Int)
        \/ NumberOf[text][1] = "fraction"
    BY ConfigAssumption
  <2> QED
    BY <1>5, <2>1, <2>2 DEF AsJson, Fits, Meaning, Unacceptable
<1> QED
  BY <1>2, <1>3, <1>4, <1>5, ConfigAssumption DEF Types, Typed

\* Each variable overrides a setting of its name.
LEMMA NamesOwn ==
  ASSUME NEW n \in BuildOverrideNames
  PROVE  /\ DOMAIN n = {NameOf[s] : s \in Settings}
         /\ \A v \in DOMAIN n : n[v] \in Settings /\ NameOf[n[v]] = v
<1> DEFINE Own(kept, v) == {k \in kept : NameOf[k] = v}
<1>1. PICK kept \in SUBSET Settings :
        /\ \A s \in Settings : Cardinality(Own(kept, NameOf[s])) = 1
        /\ n = [v \in {NameOf[s] : s \in Settings} |-> CHOOSE s \in kept : NameOf[s] = v]
  BY DEF BuildOverrideNames
<1>2. ASSUME NEW s \in Settings PROVE \E k \in kept : NameOf[k] = NameOf[s]
  <2>1. Own(kept, NameOf[s]) # {}
    BY <1>1, FS_EmptySet
  <2> QED
    BY <2>1
<1> QED
  BY <1>1, <1>2

-----------------------------------------------------------------------------
(* The invariant *)

LEMMA InitIInv == Init => IInv
<1> SUFFICES ASSUME Init PROVE IInv
  OBVIOUS
<1> USE ConfigAssumption DEF Init
<1>1. level \in Levels
  BY DEF InitLogger, IsValidLogLevel
<1>2. env \in [Vars -> Texts \union {Unset}]
  OBVIOUS
<1>3. TypeOK
  BY <1>1, <1>2 DEF TypeOK, Blank
<1>4. FileInv /\ MapInv /\ StoredInv /\ OverridesTakeEffect /\ OutcomeDecided
  BY DEF FileInv, MapInv, StoredInv, OverridesTakeEffect, OutcomeDecided
<1> QED
  BY <1>3, <1>4 DEF IInv

\* What is loaded has the types of the struct.
LEMMA LoadedTyped ==
  ASSUME FileInv, loaded # Blank \/ pc \notin {"load", "failed"}
  PROVE  \A s \in Settings : Typed(TypeOf[s], loaded[s]) /\ TypeOf[s] \in Types
BY ConfigAssumption DEF FileInv

\* What a good file holds becomes the configuration.
LEMMA LoadStep == IInv /\ LoadFromFile => IInv'
<1> SUFFICES ASSUME IInv, LoadFromFile PROVE IInv'
  OBVIOUS
<1>1. /\ pc = "load" /\ pc' \in {"marshal", "failed"} /\ loaded' = config'
      /\ pc' = "marshal" => config' \in Files
      /\ pc' = "failed" => config' = config
      /\ UNCHANGED <<env, configMap, names, pending, level>>
  BY DEF LoadFromFile, Goto
<1>2. TypeOK'
  BY <1>1, ConfigAssumption DEF IInv, TypeOK, SetVars
<1> QED
  BY <1>1, <1>2 DEF IInv, FileInv, MapInv, StoredInv, OverridesTakeEffect, OutcomeDecided

\* The map starts as the file.
LEMMA MarshalStep == IInv /\ Marshal => IInv'
<1> SUFFICES ASSUME IInv, Marshal PROVE IInv'
  OBVIOUS
<1>1. TypeOK' /\ FileInv'
  BY DEF IInv, TypeOK, FileInv, Marshal, Goto, SetVars
<1>2. MapInv'
  BY DEF IInv, FileInv, MapInv, Entry, Marshal, Goto, SetVars
<1> QED
  BY <1>1, <1>2 DEF IInv, StoredInv, OverridesTakeEffect, OutcomeDecided, Marshal, Goto

\* The loop: the map's entry is still as in the file when its variable comes.
LEMMA OverrideStep == IInv /\ (\E v \in Vars : Override(v)) => IInv'
<1> SUFFICES ASSUME IInv, NEW v \in Vars, Override(v) PROVE IInv'
  OBVIOUS
<1>1. /\ pc = "override" /\ v \in pending /\ pending' = pending \ {v}
      /\ UNCHANGED <<env, config, names, level, loaded>>
  BY DEF Override, Goto
<1>2. /\ SetVars' = SetVars /\ v \in SetVars /\ env[v] \in Texts
      /\ loaded \in Files /\ config = loaded
      /\ names \in BuildOverrideNames /\ \A s \in Settings : Entry(s)
  BY <1>1 DEF IInv, TypeOK, FileInv, MapInv, SetVars
<1>3. CASE v \notin DOMAIN names
  <2>1. pc' = pc /\ configMap' = configMap
    BY <1>3 DEF Override
  <2>2. \A s \in Settings : NameOf[s] # v
    BY <1>2, <1>3, NamesOwn
  <2>3. \A s \in Settings : Entry(s)'
    BY <1>1, <1>2, <2>1, <2>2 DEF Entry
  <2>4. TypeOK' /\ FileInv' /\ MapInv'
    BY <1>1, <1>2, <2>1, <2>3 DEF IInv, TypeOK, FileInv, MapInv
  <2> QED
    BY <1>1, <2>1, <2>4 DEF IInv, StoredInv, OverridesTakeEffect, OutcomeDecided
<1>4. CASE v \in DOMAIN names
  <2> DEFINE n   == names[v]
             new == ConvertToType(GetConfigMapValue(n), env[v])
  <2>1. n \in Settings /\ NameOf[n] = v
    BY <1>2, <1>4, NamesOwn
  <2>2. configMap[n] = AsJson(loaded[n])
    BY <1>1, <1>2, <2>1 DEF Entry
  <2>3. Typed(TypeOf[n], loaded[n]) /\ TypeOf[n] \in Types
    BY <1>2, <2>1, ConfigAssumption
  <2>4. n \in Slashed => new[1] = "panic"
    BY DEF GetConfigMapValue, ConvertToType
  <2>5. n \notin Slashed => new = ConvertToType(AsJson(loaded[n]), env[v])
    BY <2>2 DEF GetConfigMapValue
  <2>6. /\ pc' = CASE new[1] = "none"  -> "failed"
                   [] new[1] = "panic" -> "panicked"
                   [] OTHER            -> "override"
        /\ IF pc' = "override" THEN configMap' = [configMap EXCEPT ![n] = new]
                               ELSE configMap' = configMap
    BY <1>4 DEF Override, Goto, SetConfigMapValue
  <2> HIDE DEF n, new
  <2>7. TypeOK' /\ FileInv'
    BY <1>1, <1>2, <2>6 DEF IInv, TypeOK, FileInv
  <2>8. CASE new[1] \notin {"none", "panic"}
    <3>1. pc' = "override" /\ configMap' = [configMap EXCEPT ![n] = new] /\ n \notin Slashed
      BY <2>4, <2>6, <2>8
    <3>2. ASSUME NEW s \in Settings, s = n PROVE Entry(s)'
      BY <3>2, <1>1, <1>2, <2>1, <2>5, <2>8, <3>1 DEF Entry, IInv, TypeOK, n
    <3>3. ASSUME NEW s \in Settings, s # n PROVE Entry(s)'
      BY <1>1, <1>2, <2>1, <3>1, <3>3 DEF Entry, IInv, TypeOK, n
    <3>4. MapInv'
      BY <1>1, <1>2, <3>2, <3>3 DEF MapInv
    <3> QED
      BY <2>7, <3>1, <3>4 DEF IInv, StoredInv, OverridesTakeEffect, OutcomeDecided
  <2>9. CASE new[1] \in {"none", "panic"}
    <3>1. new[1] = "none" => pc' = "failed" /\ Unacceptable(n, env[v])
      BY <1>2, <2>3, <2>4, <2>5, <2>6, ConvertFails DEF Unacceptable
    <3>2. new[1] = "panic" => pc' = "panicked" /\ (loaded[n] = <<"null">> \/ n \in Slashed)
      BY <1>2, <2>3, <2>5, <2>6, ConvertFails
    <3>3. OutcomeDecided'
      BY <1>1, <1>2, <2>1, <2>9, <3>1, <3>2 DEF OutcomeDecided, Unacceptable
    <3> QED
      BY <2>7, <2>9, <3>1, <3>2, <3>3 DEF IInv, MapInv, StoredInv, OverridesTakeEffect
  <2> QED
    BY <2>8, <2>9
<1> QED
  BY <1>3, <1>4

\* Putting the map back: what fits is what the variables mean, and what does not
\* is a reason to fail.
LEMMA StoreStep == IInv /\ Store => IInv'
<1> SUFFICES ASSUME IInv, Store PROVE IInv'
  OBVIOUS
<1> DEFINE misfits == {s \in Settings : ~Fits(TypeOf[s], configMap[s])}
           nan     == \E s \in Settings : configMap[s] = <<"nan">>
<1>1. /\ pc = "override" /\ pending = {}
      /\ pc' = IF nan \/ misfits # {} THEN "failed" ELSE "level"
      /\ config' = IF nan THEN config
                   ELSE [s \in Settings |-> IF s \in misfits \/ configMap[s][1] = "null"
                                            THEN config[s] ELSE configMap[s]]
      /\ UNCHANGED <<env, configMap, names, pending, level, loaded>>
  BY DEF Store, Goto
<1>2. /\ SetVars' = SetVars /\ loaded \in Files /\ config = loaded
      /\ names \in BuildOverrideNames /\ \A s \in Settings : Entry(s)
  BY <1>1 DEF IInv, FileInv, MapInv, SetVars
<1>3. TypeOK' /\ FileInv' /\ MapInv'
  BY <1>1, <1>2 DEF IInv, TypeOK, FileInv, MapInv, Entry
<1>4. CASE ~nan /\ misfits = {}
  BY <1>1, <1>2, <1>3, <1>4 DEF IInv, StoredInv, OverridesTakeEffect, OutcomeDecided
<1>5. CASE nan \/ misfits # {}
  <2>1. PICK s \in Settings : ~Fits(TypeOf[s], configMap[s]) \/ configMap[s] = <<"nan">>
    BY <1>5
  <2>2. Typed(TypeOf[s], loaded[s]) /\ TypeOf[s] \in Types
    BY <1>2, ConfigAssumption
  <2>3. CASE NameOf[s] \in SetVars /\ names[NameOf[s]] = s
    <3>1. env[NameOf[s]] \in Texts
      BY <2>3 DEF IInv, TypeOK, SetVars
    <3>2. Unacceptable(s, env[NameOf[s]])
      <4>1. Entry(s)
        BY <1>2
      <4>2. /\ s \notin Slashed /\ configMap[s][1] \notin {"none", "panic"}
            /\ configMap[s] = ConvertToType(AsJson(loaded[s]), env[NameOf[s]])
        BY <1>1, <2>3, <4>1 DEF Entry
      <4> QED
        BY <2>1, <2>2, <3>1, <4>2, ConvertFits
    <3>3. OutcomeDecided'
      BY <1>1, <1>2, <1>5, <2>3, <3>2 DEF OutcomeDecided, Unacceptable
    <3> QED
      BY <1>1, <1>3, <1>5, <3>3 DEF IInv, StoredInv, OverridesTakeEffect
  <2>4. CASE ~(NameOf[s] \in SetVars /\ names[NameOf[s]] = s)
    <3>1. configMap[s] = AsJson(loaded[s])
      BY <1>2, <2>4 DEF Entry
    <3>2. TypeOf[s] \in {"int", "uint"} /\ ~Fits(TypeOf[s], AsJson(loaded[s]))
      BY <2>1, <2>2, <3>1, JsonKeeps
    <3>3. OutcomeDecided'
      BY <1>1, <1>2, <1>5, <3>2 DEF OutcomeDecided
    <3> QED
      BY <1>1, <1>3, <1>5, <3>3 DEF IInv, StoredInv, OverridesTakeEffect
  <2> QED
    BY <2>3, <2>4
<1> QED
  BY <1>4, <1>5

\* What the configuration has once it was put back.
Stored(s) ==
  IF NameOf[s] \in SetVars /\ names[NameOf[s]] = s
  THEN config[s] = Meaning(TypeOf[s], env[NameOf[s]]) /\ ~Unacceptable(s, env[NameOf[s]])
  ELSE config[s] = AsJson(loaded[s])

LEMMA StoredMeaning ==
  ASSUME IInv, pc = "level", NEW s \in Settings
  PROVE  Stored(s)
<1>1. /\ Entry(s) /\ pending = {}
      /\ Fits(TypeOf[s], configMap[s]) /\ configMap[s] # <<"nan">>
      /\ config[s] = IF configMap[s][1] = "null" THEN loaded[s] ELSE configMap[s]
  BY DEF IInv, MapInv, StoredInv
<1>2. Typed(TypeOf[s], loaded[s]) /\ TypeOf[s] \in Types
  BY LoadedTyped DEF IInv
<1>3. CASE NameOf[s] \in SetVars /\ names[NameOf[s]] = s
  <2>1. env[NameOf[s]] \in Texts
    BY <1>3 DEF IInv, TypeOK, SetVars
  <2> QED
    BY <1>1, <1>2, <1>3, <2>1, ConvertFits DEF Entry, Stored
<1>4. CASE ~(NameOf[s] \in SetVars /\ names[NameOf[s]] = s)
  BY <1>1, <1>2, <1>4, JsonKeeps DEF Entry, Stored
<1> QED
  BY <1>3, <1>4

\* The end: the level is that of the configuration, and the configuration is what
\* the file and the variables say.
LEMMA LevelStep == IInv /\ SetLogLevel => IInv'
<1> SUFFICES ASSUME IInv, SetLogLevel PROVE IInv'
  OBVIOUS
<1>1. /\ pc = "level" /\ pc' \in {"done", "failed"}
      /\ pc' = "done" => config[LevelPath][2] \in Levels /\ level' = config[LevelPath][2]
      /\ pc' = "failed" => config[LevelPath][2] \notin Levels /\ level' = level
      /\ UNCHANGED <<env, config, configMap, names, pending, loaded>>
  BY DEF SetLogLevel, Goto, IsValidLogLevel
<1>2. /\ SetVars' = SetVars /\ names \in BuildOverrideNames /\ loaded \in Files
      /\ \A s \in Settings : Stored(s)
  BY <1>1, StoredMeaning DEF IInv, FileInv, MapInv, SetVars
<1>3. TypeOK' /\ FileInv' /\ MapInv' /\ StoredInv'
  BY <1>1, <1>2 DEF IInv, TypeOK, FileInv, MapInv, Entry, StoredInv
<1>4. \A s \in Settings : names[NameOf[s]] \in Overrides(NameOf[s])
  BY <1>2, NamesOwn DEF Overrides
<1>5. config[LevelPath][2] = ConfiguredLevel
  <2>1. names[NameOf[LevelPath]] = LevelPath
    BY <1>4, ConfigAssumption DEF Overrides
  <2>2. loaded[LevelPath][1] = "text"
    BY <1>2, ConfigAssumption DEF Typed
  <2>3. Stored(LevelPath) /\ TypeOf[LevelPath] = "text"
    BY <1>2, ConfigAssumption
  <2>4. CASE NameOf[LevelPath] \in SetVars
    <3>1. config[LevelPath] = <<"text", env[NameOf[LevelPath]]>>
      BY <2>1, <2>3, <2>4 DEF Stored, Meaning
    <3> QED
      BY <2>4, <3>1 DEF ConfiguredLevel
  <2>5. CASE NameOf[LevelPath] \notin SetVars
    BY <2>2, <2>3, <2>5 DEF Stored, ConfiguredLevel, AsJson
  <2> QED
    BY <2>4, <2>5
<1>6. OverridesTakeEffect'
  <2>1. ASSUME NEW v \in SetVars, Overrides(v) # {}
        PROVE  \E s \in Overrides(v) :
                 /\ config[s] = Meaning(TypeOf[s], env[v])
                 /\ \A o \in Overrides(v) \ {s} : config[o] = AsJson(loaded[o])
    <3>1. names[v] \in Overrides(v) /\ \A s \in Overrides(v) : s \in Settings /\ NameOf[s] = v
      BY <1>4, <2>1 DEF Overrides
    <3>2. config[names[v]] = Meaning(TypeOf[names[v]], env[v])
      BY <1>2, <2>1, <3>1 DEF Stored
    <3>3. \A o \in Overrides(v) \ {names[v]} : config[o] = AsJson(loaded[o])
      BY <1>2, <3>1 DEF Stored
    <3> QED
      BY <3>1, <3>2, <3>3
  <2>2. ASSUME NEW s \in Settings, NameOf[s] \notin SetVars
        PROVE  config[s] = loaded[s] \/ (loaded[s][1] = "num" /\ ~Exact(loaded[s][2]))
    <3>1. config[s] = AsJson(loaded[s])
      BY <1>2, <2>2 DEF Stored
    <3> QED
      BY <1>2, <3>1, ConfigAssumption, JsonKeeps
  <2> QED
    BY <1>1, <1>2, <2>1, <2>2 DEF OverridesTakeEffect, Overrides
<1>7. OutcomeDecided'
  <2>1. ASSUME NEW s \in Settings, NameOf[s] \in SetVars, Overrides(NameOf[s]) = {s}
        PROVE  ~Unacceptable(s, env[NameOf[s]])
    BY <1>2, <1>4, <2>1 DEF Stored
  <2> QED
    BY <1>1, <1>2, <1>5, <2>1 DEF OutcomeDecided, Unacceptable, ConfiguredLevel, Overrides
<1> QED
  BY <1>3, <1>6, <1>7 DEF IInv

LEMMA StepIInv == IInv /\ [Next]_vars => IInv'
<1> SUFFICES ASSUME IInv, [Next]_vars PROVE IInv'
  OBVIOUS
<1>1. CASE Ended \/ UNCHANGED vars
  BY <1>1 DEF Ended, vars, IInv, TypeOK, FileInv, MapInv, Entry, StoredInv, SetVars, Overrides,
              OverridesTakeEffect, OutcomeDecided, Unacceptable, ConfiguredLevel
<1> QED
  BY <1>1, LoadStep, MarshalStep, OverrideStep, StoreStep, LevelStep DEF Next

LEMMA Invariance == Spec => []IInv
BY InitIInv, StepIInv, PTL DEF Spec

\* Type correctness; the level of the logger is always a level.
THEOREM TypeCorrect == Spec => []TypeOK
<1>1. IInv => TypeOK
  BY DEF IInv
<1> QED
  BY <1>1, Invariance, PTL

\* A service that starts has the overrides in force, and the file otherwise.
THEOREM OverridesTakeEffectHolds == Spec => []OverridesTakeEffect
<1>1. IInv => OverridesTakeEffect
  BY DEF IInv
<1> QED
  BY <1>1, Invariance, PTL

\* Whether a service starts does not depend on the order of the overrides.
THEOREM OutcomeDecidedHolds == Spec => []OutcomeDecided
<1>1. IInv => OutcomeDecided
  BY DEF IInv
<1> QED
  BY <1>1, Invariance, PTL

-----------------------------------------------------------------------------
(* The TLS assets *)

\* A call that is about to write a PKI file has the key for it in memory, and
\* the key file it goes with is written.
PrivateInv ==
  /\ tlsPc \in PkiFiles => private \in 1 .. keys
  /\ tlsPc = "caCert" => disk["caKey"] = <<"key", private>>
  /\ tlsPc = "tlsCert" => disk["tlsKey"] = <<"key", private>>

\* Where a certificate is to be signed there is a CA to sign with, if this call
\* was to make one; and there is none without the directory.
CaInv ==
  /\ tlsPc \in {"tlsKey", "tlsCert"} => CAUsable
  /\ newCA /\ tlsPc = "sign" => CAUsable
  /\ ~pkiDir => disk["caKey"] = None /\ tlsPc # "caKey"
  /\ ~newCA => tlsPc \notin {"mkdir", "caKey", "caCert"}

\* What is copied fits together.
PkiInv ==
  tlsPc \in Outputs \union {"copied"} =>
    \E k, c \in 1 .. keys :
      /\ disk["caKey"] = <<"key", c>> /\ disk["caCert"] = <<"cert", c, c>>
      /\ disk["tlsKey"] = <<"key", k>> /\ disk["tlsCert"] = <<"cert", k, c>>

\* What has been copied is what was to be copied; a CA has no certificate of
\* its own.
CopyInv ==
  /\ tlsPc \in {"key", "cert", "copied"} => disk["ca"] = disk["caCert"]
  /\ tlsPc \in {"cert", "copied"} /\ ~caService => disk["key"] = disk["tlsKey"]
  /\ tlsPc = "copied" /\ ~caService => disk["cert"] = disk["tlsCert"]
  /\ caService => disk["cert"] = None /\ tlsPc # "cert"

\* Output files that are all there fit together, unless copying was cut short.
FitInv ==
  /\ ~cut /\ (\A f \in Outputs : Exists(f)) => Consistent
  /\ tlsPc = "returned" /\ result = "exist" => \A f \in Outputs : Exists(f)

Flags ==
  /\ newCA \in BOOLEAN /\ caService \in BOOLEAN /\ valid \in BOOLEAN
  /\ pkiDir \in BOOLEAN /\ opened \in BOOLEAN /\ cut \in BOOLEAN

TlsIInv ==
  /\ TlsTypeOK /\ Flags
  /\ PrivateInv /\ CaInv /\ PkiInv /\ CopyInv /\ FitInv /\ AssetsFit /\ NeverStuck

\* The output files decide whether they fit together ...
LEMMA SameOutputs ==
  ASSUME \A f \in Outputs : disk'[f] = disk[f]
  PROVE  /\ Consistent' <=> Consistent
         /\ \A f \in Outputs : Exists(f)' <=> Exists(f)
BY DEF Outputs, Consistent, Exists

\* ... and the files of the CA whether it can be used; keys are only added.
LEMMA SameCA ==
  ASSUME disk'["caKey"] = disk["caKey"], disk'["caCert"] = disk["caCert"],
         keys \in Nat, keys' \in Nat, keys <= keys', CAUsable
  PROVE  CAUsable'
BY DEF CAUsable

LEMMA TlsInitIInv == TlsInit => TlsIInv
<1> SUFFICES ASSUME TlsInit PROVE TlsIInv
  OBVIOUS
<1> USE TlsAssumption DEF TlsInit, None, PkiFiles, Outputs
<1>1. TlsTypeOK /\ Flags
  <2>1. disk \in [PkiFiles \union Outputs -> Contents]
    <3> SUFFICES ASSUME NEW f \in PkiFiles \union Outputs PROVE disk[f] \in Contents
      OBVIOUS
    <3>1. disk[f] \in {<<"key", 1>>, <<"cert", 1, 1>>, <<"none">>}
      OBVIOUS
    <3> QED
      BY <3>1 DEF Contents
  <2>2. tlsPc = "down" /\ keys = 1 /\ private = 0 /\ starts = 0 /\ result = "none" /\ opened = FALSE
    OBVIOUS
  <2>3. Flags
    BY DEF Flags
  <2> HIDE DEF TlsInit, None, PkiFiles, Outputs
  <2> QED
    BY <2>1, <2>2, <2>3 DEF TlsTypeOK
<1>2. PrivateInv /\ PkiInv /\ CopyInv
  BY DEF PrivateInv, PkiInv, CopyInv
<1>3. CaInv
  BY DEF CaInv, CAUsable
<1>4. FitInv /\ AssetsFit /\ NeverStuck
  BY DEF FitInv, AssetsFit, NeverStuck, Exists
<1> QED
  BY <1>1, <1>2, <1>3, <1>4 DEF TlsIInv

\* An end of a call leaves everything but the call's own state alone.
Ends ==
  /\ tlsPc' \in {"down", "returned"} /\ private' = 0 /\ opened' = FALSE
  /\ result' \in {"none", "environment", "exist", "generated", "error"}
  /\ cut' \in BOOLEAN
  /\ UNCHANGED <<settings, pkiDir, disk, keys, starts>>

LEMMA EndsBookkeeping ==
  ASSUME TlsIInv, Ends
  PROVE  /\ (TlsTypeOK /\ Flags /\ PrivateInv /\ CaInv /\ PkiInv /\ CopyInv)'
         /\ CAUsable' <=> CAUsable
         /\ Consistent' <=> Consistent
         /\ \A f \in Outputs : Exists(f)' <=> Exists(f)
<1> USE DEF TlsIInv, Ends, settings
<1>1. (TlsTypeOK /\ Flags)'
  <2>1. 0 \in 0 .. keys
    BY TlsAssumption DEF TlsTypeOK
  <2>2. TlsTypeOK'
    BY <2>1 DEF TlsTypeOK
  <2>3. Flags'
    BY DEF Flags
  <2> QED
    BY <2>2, <2>3
<1>2. CAUsable' <=> CAUsable
  BY DEF CAUsable
<1>3. (Consistent' <=> Consistent) /\ \A f \in Outputs : Exists(f)' <=> Exists(f)
  BY DEF Consistent, Exists
<1>4. PrivateInv' /\ PkiInv' /\ CopyInv'
  BY DEF PrivateInv, PkiInv, CopyInv, PkiFiles, Outputs
<1>5. CaInv'
  BY <1>2 DEF CaInv
<1> QED
  BY <1>1, <1>2, <1>3, <1>4, <1>5

LEMMA EndsStep ==
  ASSUME TlsIInv, FromEnvironment \/ Skip \/ Rejected \/ Copied \/ Fails \/ Crash
                 \/ (Sign /\ ~CAUsable)
  PROVE  TlsIInv'
<1>1. Ends
  BY DEF TlsIInv, Flags, TlsTypeOK, Ends, FromEnvironment, Skip, Rejected, Copied, Fails, Crash,
         Sign, Return
<1> USE EndsBookkeeping, <1>1
<1>2. FitInv' /\ AssetsFit'
  <2>1. CASE FromEnvironment \/ Rejected \/ Fails \/ Crash \/ (Sign /\ ~CAUsable)
    BY <2>1 DEF TlsIInv, FitInv, AssetsFit, FromEnvironment, Rejected, Fails, Crash, Sign, Return
  <2>2. CASE Skip
    BY <2>2 DEF TlsIInv, FitInv, AssetsFit, Skip, Return
  <2>3. CASE Copied
    <3>1. ~caService => Consistent
      BY <2>3, TlsAssumption DEF TlsIInv, TlsTypeOK, Copied, PkiInv, CopyInv, Consistent, Outputs
    <3>2. caService => ~Exists("cert")
      BY DEF TlsIInv, CopyInv, Exists
    <3> QED
      BY <2>3, <3>1, <3>2 DEF FitInv, AssetsFit, Copied, Return, Outputs, settings, TlsIInv, Flags
  <2> QED
    BY <2>1, <2>2, <2>3
<1>3. NeverStuck'
  <2>1. CASE Rejected
    <3>1. ~newCA /\ ~pkiDir => ~CAUsable
      BY DEF TlsIInv, CaInv, CAUsable, None
    <3> QED
      BY <2>1, <3>1 DEF NeverStuck, Rejected, Return, settings
  <2>2. CASE FromEnvironment \/ Skip \/ Copied \/ Fails \/ Crash
    BY <2>2 DEF NeverStuck, FromEnvironment, Skip, Copied, Fails, Crash, Return
  <2>3. CASE Sign /\ ~CAUsable
    <3>1. tlsPc = "sign" /\ newCA' = newCA
      BY <2>3 DEF Sign, TlsGoto, settings
    <3>2. ~newCA' /\ ~CAUsable'
      BY <2>3, <3>1 DEF TlsIInv, CaInv, Flags
    <3> QED
      BY <3>2 DEF NeverStuck
  <2> QED
    BY <2>1, <2>2, <2>3
<1> QED
  BY <1>2, <1>3 DEF TlsIInv

LEMMA TlsStepIInv == TlsIInv /\ [TlsNext]_tlsVars => TlsIInv'
<1> SUFFICES ASSUME TlsIInv, [TlsNext]_tlsVars PROVE TlsIInv'
  OBVIOUS
<1> USE TlsAssumption
\* A call begins, or gets on with the files as they are.
<1>1. CASE Start \/ UseCA \/ UNCHANGED tlsVars
  <2>1. /\ disk' = disk /\ keys' = keys /\ UNCHANGED <<caService, pkiDir, private, opened, cut>>
        /\ newCA' \in BOOLEAN /\ valid' \in BOOLEAN
    BY <1>1 DEF TlsIInv, Flags, Start, UseCA, settings, tlsVars
  <2>2. /\ CAUsable' <=> CAUsable
        /\ Consistent' <=> Consistent
        /\ \A f \in Outputs : Exists(f)' <=> Exists(f)
    BY <2>1 DEF CAUsable, Consistent, Exists
  <2>3. (TlsTypeOK /\ Flags)'
    BY <1>1, <2>1 DEF TlsIInv, TlsTypeOK, Flags, settings, Start, UseCA, tlsVars, TlsGoto,
                      PkiFiles, Outputs
  <2>4. (PrivateInv /\ PkiInv /\ CopyInv)'
    BY <1>1, <2>1 DEF TlsIInv, PrivateInv, PkiInv, CopyInv, settings, Start, UseCA, tlsVars,
                      TlsGoto,
                      PkiFiles, Outputs
  <2>5. CaInv'
    BY <1>1, <2>1, <2>2 DEF TlsIInv, CaInv, settings, Start, UseCA, tlsVars, TlsGoto
  <2>6. (FitInv /\ AssetsFit /\ NeverStuck)'
    BY <1>1, <2>1, <2>2 DEF TlsIInv, FitInv, AssetsFit, NeverStuck, settings, Start, UseCA,
                            tlsVars, TlsGoto
  <2> QED
    BY <2>3, <2>4, <2>5, <2>6 DEF TlsIInv
<1>2. CASE RemovePkiDir
  <2>1. \A f \in Outputs : disk'[f] = disk[f]
    BY <1>2 DEF RemovePkiDir, TlsIInv, TlsTypeOK, PkiFiles, Outputs
  <2>2. disk' \in [PkiFiles \union Outputs -> Contents]
    BY <1>2 DEF RemovePkiDir, TlsIInv, TlsTypeOK, Contents
  <2>3. (TlsTypeOK /\ Flags)'
    BY <1>2, <2>2 DEF TlsIInv, TlsTypeOK, Flags, settings, RemovePkiDir, TlsGoto, PkiFiles, Outputs
  <2>4. (PrivateInv /\ PkiInv /\ CaInv)'
    BY <1>2 DEF TlsIInv, TlsTypeOK, PrivateInv, PkiInv, CaInv, settings, RemovePkiDir, TlsGoto,
                PkiFiles, Outputs
  <2>5. CopyInv'
    BY <1>2, <2>1 DEF TlsIInv, CopyInv, settings, RemovePkiDir, TlsGoto, Outputs
  <2>6. (FitInv /\ AssetsFit /\ NeverStuck)'
    BY <1>2, <2>1, SameOutputs DEF TlsIInv, FitInv, AssetsFit, NeverStuck, settings, RemovePkiDir,
                                   TlsGoto
  <2> QED
    BY <2>3, <2>4, <2>5, <2>6 DEF TlsIInv
<1>3. CASE MakePkiDir
  <2>1. \A f \in Outputs : disk'[f] = disk[f]
    BY <1>3 DEF MakePkiDir
  <2>2. newCA
    BY <1>3 DEF TlsIInv, CaInv, MakePkiDir, TlsGoto, Flags
  <2>3. (TlsTypeOK /\ Flags)'
    BY <1>3 DEF TlsIInv, TlsTypeOK, Flags, settings, MakePkiDir, TlsGoto, PkiFiles, Outputs
  <2>4. (PrivateInv /\ PkiInv /\ CopyInv)'
    BY <1>3 DEF TlsIInv, TlsTypeOK, PrivateInv, PkiInv, CopyInv, settings, MakePkiDir, TlsGoto,
                PkiFiles, Outputs
  <2>5. CaInv'
    BY <1>3, <2>2 DEF CaInv, settings, MakePkiDir, TlsGoto
  <2>6. (FitInv /\ AssetsFit /\ NeverStuck)'
    BY <1>3, <2>1, SameOutputs DEF TlsIInv, FitInv, AssetsFit, NeverStuck, settings, MakePkiDir,
                                   TlsGoto
  <2> QED
    BY <2>3, <2>4, <2>5, <2>6 DEF TlsIInv
<1>4. CASE Sign /\ CAUsable
  <2>1. \A f \in Outputs : disk'[f] = disk[f]
    BY <1>4 DEF Sign
  <2>2. CAUsable'
    BY <1>4, SameCA DEF Sign, TlsIInv, TlsTypeOK
  <2>3. (TlsTypeOK /\ Flags)'
    BY <1>4 DEF TlsIInv, TlsTypeOK, Flags, settings, Sign, TlsGoto, PkiFiles, Outputs
  <2>4. (PrivateInv /\ PkiInv /\ CopyInv)'
    BY <1>4 DEF TlsIInv, TlsTypeOK, PrivateInv, PkiInv, CopyInv, settings, Sign, TlsGoto,
                PkiFiles, Outputs
  <2>5. CaInv'
    BY <1>4, <2>2 DEF TlsIInv, CaInv, settings, Sign, TlsGoto
  <2>6. (FitInv /\ AssetsFit /\ NeverStuck)'
    BY <1>4, <2>1, SameOutputs DEF TlsIInv, FitInv, AssetsFit, NeverStuck, settings, Sign, TlsGoto
  <2> QED
    BY <2>3, <2>4, <2>5, <2>6 DEF TlsIInv
<1>5. CASE GenerateRoot \/ GenerateTls
  <2>1. PICK f \in PkiFiles : f = tlsPc /\ disk' = [disk EXCEPT ![f] = disk'[f]]
    BY <1>5 DEF TlsIInv, TlsTypeOK, GenerateRoot, GenerateTls, Write, PkiFiles
  <2>2. \A o \in Outputs : disk'[o] = disk[o]
    BY <2>1 DEF TlsIInv, TlsTypeOK, PkiFiles, Outputs
  <2>3. disk'[f] \in Contents
    BY <1>5, <2>1 DEF TlsIInv, TlsTypeOK, PrivateInv, CaInv, CAUsable, GenerateRoot, GenerateTls,
                      Write,
                      Contents, PkiFiles
  <2>4. (TlsTypeOK /\ Flags)'
    <3>1. disk' \in [PkiFiles \union Outputs -> Contents]
      BY <2>1, <2>3 DEF TlsIInv, TlsTypeOK
    <3>2. opened' => tlsPc' = f /\ disk'[f] = Torn
      BY <1>5, <2>1 DEF TlsIInv, TlsTypeOK, Flags, GenerateRoot, GenerateTls, Write, PkiFiles
    <3>3. tlsPc' \in {"sign", "ca"} \union PkiFiles /\ opened' = ~opened
          /\ UNCHANGED <<settings, pkiDir, keys, private, result, starts, cut>>
      BY <1>5, <2>1 DEF GenerateRoot, GenerateTls, Write, PkiFiles
    <3>4. opened' => tlsPc' \in DOMAIN disk' /\ disk'[tlsPc'] = Torn
      BY <3>1, <3>2
    <3>5. TlsTypeOK'
      BY <3>1, <3>3, <3>4 DEF TlsIInv, TlsTypeOK, PkiFiles, Outputs
    <3>6. Flags'
      BY <3>3 DEF TlsIInv, Flags, settings
    <3> QED
      BY <3>5, <3>6
  <2>5. PrivateInv'
    BY <1>5 DEF TlsIInv, TlsTypeOK, PrivateInv, settings, GenerateRoot, GenerateTls, Write,
                PkiFiles, Outputs
  <2>6. CaInv'
    <3>1. CASE tlsPc = "caCert" /\ opened
      BY <1>5, <3>1 DEF TlsIInv, TlsTypeOK, Flags, PrivateInv, CaInv, CAUsable, settings,
                        GenerateRoot, GenerateTls, Write, PkiFiles
    <3>2. CASE tlsPc \in {"caKey", "caCert"} /\ ~(tlsPc = "caCert" /\ opened)
      BY <1>5, <3>2 DEF TlsIInv, TlsTypeOK, Flags, CaInv, settings, GenerateRoot, GenerateTls,
                        Write, PkiFiles
    <3>3. CASE tlsPc \in {"tlsKey", "tlsCert"}
      <4>1. CAUsable'
        BY <1>5, <3>3, SameCA DEF TlsIInv, TlsTypeOK, CaInv, GenerateRoot, GenerateTls, Write,
                                  PkiFiles
      <4> QED
        BY <1>5, <3>3, <4>1 DEF TlsIInv, TlsTypeOK, Flags, CaInv, settings, GenerateRoot,
                                GenerateTls, Write, PkiFiles
    <3> QED
      BY <2>1, <3>1, <3>2, <3>3 DEF PkiFiles
  <2>7. PkiInv'
    <3>1. CASE tlsPc = "tlsCert" /\ opened
      BY <1>5, <3>1 DEF TlsIInv, TlsTypeOK, Flags, PrivateInv, CaInv, CAUsable, PkiInv,
                        GenerateRoot, GenerateTls, Write, PkiFiles
    <3>2. CASE ~(tlsPc = "tlsCert" /\ opened)
      BY <1>5, <3>2 DEF TlsIInv, PkiInv, GenerateRoot, GenerateTls, Write, Outputs
    <3> QED
      BY <3>1, <3>2
  <2>8. CopyInv'
    BY <1>5, <2>2 DEF TlsIInv, CopyInv, settings, GenerateRoot, GenerateTls, Write, Outputs
  <2>9. (FitInv /\ AssetsFit /\ NeverStuck)'
    BY <1>5, <2>2, SameOutputs DEF TlsIInv, FitInv, AssetsFit, NeverStuck, settings, GenerateRoot,
                                   GenerateTls, Write
  <2> QED
    BY <2>4, <2>5, <2>6, <2>7, <2>8, <2>9 DEF TlsIInv
<1>6. ASSUME NEW f \in Outputs, CopyFile(f) PROVE TlsIInv'
  <2>1. \A p \in PkiFiles : disk'[p] = disk[p]
    BY <1>6 DEF TlsIInv, TlsTypeOK, CopyFile, PkiFiles, Outputs
  <2>2. disk' \in [PkiFiles \union Outputs -> Contents]
    BY <1>6 DEF TlsIInv, TlsTypeOK, CopyFile, Source, PkiFiles, Outputs, Contents
  <2>3. (TlsTypeOK /\ Flags)'
    <3>1. /\ tlsPc = f /\ opened' \in BOOLEAN /\ cut' = TRUE
          /\ tlsPc' \in {"copied"} \union Outputs
          /\ UNCHANGED <<newCA, caService, valid, pkiDir, keys, private, result, starts>>
      BY <1>6 DEF CopyFile, After, settings, Outputs
    <3>2. opened' => tlsPc' \in DOMAIN disk' /\ disk'[tlsPc'] = Torn
      BY <1>6 DEF TlsIInv, TlsTypeOK, CopyFile
    <3>3. Flags'
      BY <3>1 DEF TlsIInv, Flags
    <3> QED
      BY <2>2, <3>1, <3>2, <3>3 DEF TlsIInv, TlsTypeOK, Outputs
  <2>4. PrivateInv' /\ PkiInv'
    BY <1>6, <2>1 DEF TlsIInv, PrivateInv, PkiInv, CopyFile, After, PkiFiles, Outputs
  <2>5. CaInv'
    <3>1. CAUsable => CAUsable'
      BY <1>6, <2>1, SameCA DEF TlsIInv, TlsTypeOK, CopyFile, PkiFiles
    <3> QED
      BY <1>6, <2>1, <3>1 DEF TlsIInv, Flags, CaInv, settings, CopyFile, After, PkiFiles, Outputs
  <2>6. CopyInv'
    BY <1>6, <2>1 DEF TlsIInv, TlsTypeOK, Flags, CopyInv, settings, CopyFile, Source, After,
                      PkiFiles, Outputs
  <2>7. (FitInv /\ AssetsFit /\ NeverStuck)'
    BY <1>6 DEF FitInv, AssetsFit, NeverStuck, CopyFile, After, Outputs
  <2> QED
    BY <2>3, <2>4, <2>5, <2>6, <2>7 DEF TlsIInv
<1>7. ASSUME NEW f \in Outputs, Delete(f) PROVE TlsIInv'
  <2>1. \A p \in PkiFiles : disk'[p] = disk[p]
    BY <1>7 DEF TlsIInv, TlsTypeOK, Delete, PkiFiles, Outputs
  <2>2. disk' \in [PkiFiles \union Outputs -> Contents]
    BY <1>7 DEF TlsIInv, TlsTypeOK, Delete, Contents
  <2>3. (TlsTypeOK /\ Flags)'
    BY <1>7, <2>2 DEF TlsIInv, TlsTypeOK, Flags, settings, Delete, PkiFiles, Outputs
  <2>4. PrivateInv' /\ PkiInv'
    BY <1>7 DEF PrivateInv, PkiInv, Delete, PkiFiles, Outputs
  <2>5. CaInv'
    <3>1. CAUsable => CAUsable'
      BY <1>7, <2>1, SameCA DEF TlsIInv, TlsTypeOK, Delete, PkiFiles
    <3> QED
      BY <1>7, <2>1, <3>1 DEF TlsIInv, Flags, CaInv, settings, Delete, PkiFiles
  <2>6. CopyInv'
    BY <1>7, <2>1 DEF TlsIInv, TlsTypeOK, CopyInv, settings, Delete, Outputs
  <2>7. (FitInv /\ AssetsFit /\ NeverStuck)'
    BY <1>7 DEF TlsIInv, TlsTypeOK, FitInv, AssetsFit, NeverStuck, Delete, Exists
  <2> QED
    BY <2>3, <2>4, <2>5, <2>6, <2>7 DEF TlsIInv
<1> QED
  BY EndsStep, <1>1, <1>2, <1>3, <1>4, <1>5, <1>6, <1>7 DEF TlsNext

LEMMA TlsInvariance == TlsSpec => []TlsIInv
BY TlsInitIInv, TlsStepIInv, PTL DEF TlsSpec

\* Type correctness; and only a file that has been begun is open.
THEOREM TlsTypeCorrect == TlsSpec => []TlsTypeOK
<1>1. TlsIInv => TlsTypeOK
  BY DEF TlsIInv
<1> QED
  BY <1>1, TlsInvariance, PTL

\* Whatever crashes, failures and deletions leave behind, a call ends with a
\* key, a certificate and a CA that go together.
THEOREM AssetsFitHolds == TlsSpec => []AssetsFit
<1>1. TlsIInv => AssetsFit
  BY DEF TlsIInv
<1> QED
  BY <1>1, TlsInvariance, PTL

\* Nothing that is left behind makes a later call fail that is to create a CA, and
\* one that is not fails only without a whole CA, whatever the configurations of
\* the calls before it.
THEOREM NeverStuckHolds == TlsSpec => []NeverStuck
<1>1. TlsIInv => NeverStuck
  BY DEF TlsIInv
<1> QED
  BY <1>1, TlsInvariance, PTL

=============================================================================
