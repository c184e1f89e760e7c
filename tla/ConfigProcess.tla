--------------------------- MODULE ConfigProcess ---------------------------
(***************************************************************************)
(* Processor.Process of pkg/bootstrap/configprocessor with the overrides   *)
(* of pkg/bootstrap/environment: the configuration is read from a file,    *)
(* turned into a map by way of JSON, overridden there from environment     *)
(* variables, one by one and in the random order of a Go map, and put back *)
(* into the service's struct; then the log level is set.                   *)
(*                                                                         *)
(* A value is tagged: <<"text", t>>, <<"num", n>>, <<"fraction", t>>,      *)
(* <<"nan">>, <<"flag", b>>, <<"list", t>> (the pieces of t between        *)
(* commas), <<"ints">>, <<"null">>.  Numbers beyond MaxExact stand for     *)
(* those beyond 2^53, which JSON's float64 rounds; MaxInt is the largest   *)
(* value of an integer field, signed ("int") or not ("uint").              *)
(***************************************************************************)
EXTENDS Integers, FiniteSets

CONSTANTS
  Settings,    \* paths of the settings in the struct
  LevelPath,   \* the one GetLogLevel returns
  TypeOf,      \* types of the fields
  Files,       \* the configurations a file may hold
  Slashed,     \* nested settings with a "/" in their own key
  Vars,        \* names of environment variables
  NameOf,      \* getOverrideNameFor each path: "/" and "-" both become "_"
  Texts,       \* values of environment variables
  NumberOf,    \* strconv.ParseFloat of each text, <<"none">> if it fails
  FlagOf,      \* strconv.ParseBool, likewise
  Levels,      \* the texts that are log levels
  FileAt,      \* what is at each location: "good", "mistyped", "malformed",
               \* "unsupported" (its extension), "missing"
  MaxExact, MaxInt,
  MaxVars      \* bound: environment variables that are set

Types == {"text", "int", "uint", "real", "flag", "list", "ints"}

\* Of the numbers that an integer field can hold.
Fitting(type) == IF type = "uint" THEN 0 .. MaxInt ELSE (-MaxInt - 1) .. MaxInt

\* What a field of a type may hold; "null" is a nil pointer, slice or map.
Typed(type, value) ==
  \/ value = <<"null">>
  \/ type \in {"int", "real"} /\ value \in {"num"} \X Int
  \/ type = "uint" /\ value \in {"num"} \X Nat
  \/ type = "real" /\ value[1] = "fraction"
  \/ type \in {"text", "flag", "list", "ints"} /\ value[1] = type

\* A file of either format has become a struct by way of JSON, which has no NaN; a
\* string is never nil.
ASSUME ConfigAssumption ==
  /\ "INFO" \in Levels
  /\ TypeOf \in [Settings -> Types]
  /\ LevelPath \in Settings /\ TypeOf[LevelPath] = "text"
  /\ \A f \in Files : /\ DOMAIN f = Settings /\ f[LevelPath] # <<"null">>
                      /\ \A s \in Settings : Typed(TypeOf[s], f[s])
  /\ NameOf \in [Settings -> Vars] /\ Slashed \subseteq Settings
  /\ \A s \in Settings \ {LevelPath} : NameOf[s] # NameOf[LevelPath]
  /\ \A t \in Texts : /\ FlagOf[t] \in {<<"none">>} \union ({"flag"} \X BOOLEAN)
                      /\ \/ NumberOf[t] \in {<<"none">>, <<"nan">>} \union ({"num"} \X Int)
                         \/ NumberOf[t][1] = "fraction"
  /\ MaxExact \in Nat /\ MaxInt \in Nat /\ MaxExact < MaxInt

VARIABLES
  pc,        \* where Process is; "done", "failed" and "panicked" end it
  env,       \* the environment variables, as NewVariables read them
  config,    \* the service's configuration struct
  configMap, \* the map OverrideConfigMapValues works on
  names,     \* overrideNames: the path each variable overrides
  pending,   \* the variables the loop has not come to
  level,     \* the level of the logger
  loaded     \* history: the configuration as the file has it

vars == <<pc, env, config, configMap, names, pending, level, loaded>>

Unset == "unset"
Blank == [s \in Settings |-> <<"null">>]
SetVars == {v \in Vars : env[v] # Unset}
Overrides(v) == {s \in Settings : NameOf[s] = v}

IsValidLogLevel(l) == l \in Levels

\* InitLogger, with the level the service asks for before it has a configuration.
InitLogger(wanted) == IF IsValidLogLevel(wanted) THEN wanted ELSE "INFO"

\* NewVariables.
Init ==
  /\ pc = "load"
  /\ \E set \in SUBSET Vars : \E value \in [set -> Texts] :
       /\ Cardinality(set) <= MaxVars
       /\ env = [v \in Vars |-> IF v \in set THEN value[v] ELSE Unset]
  /\ config = Blank /\ configMap = Blank /\ loaded = Blank
  /\ names = <<>> /\ pending = {}
  /\ \E wanted \in Levels \union {"unknown"} : level = InitLogger(wanted)

Goto(from, to) == pc = from /\ pc' = to

-----------------------------------------------------------------------------
(* The pieces *)

\* GetConfigDir, GetConfigFileName: the environment before the command line.
ChosenSource(inEnv, inFlags) ==
  IF inEnv THEN "env" ELSE IF inFlags THEN "flag" ELSE "default"

\* What json.Marshal and json.Unmarshal into a map make of a value.
Exact(n) == -MaxExact <= n /\ n <= MaxExact
Rounded(n) == IF Exact(n) THEN n ELSE 4 * ((n + 2) \div 4)

AsJson(value) == IF value[1] = "num" THEN <<"num", Rounded(value[2])>> ELSE value

\* Faulty variant: the error of the conversion is lost.
ConvertWithoutError(old, text) ==
  CASE old[1] \in {"list", "ints"} -> <<"list", text>>
    [] old[1] = "text"             -> <<"text", text>>
    [] old[1] = "flag"             -> IF FlagOf[text] = <<"none">> THEN <<"flag", FALSE>> ELSE FlagOf[text]
    [] old[1] \in {"num", "fraction"} -> IF NumberOf[text] = <<"none">> THEN <<"num", 0>> ELSE AsJson(NumberOf[text])
    [] OTHER                       -> <<"panic">>

\* convertToType goes by the JSON type of the old value: for null there is no
\* type to name in the error message, and the attempt to name it panics.
ConvertToType(old, text) ==
  CASE old[1] \in {"list", "ints"}    -> <<"list", text>>
    [] old[1] = "text"                -> <<"text", text>>
    [] old[1] = "flag"                -> FlagOf[text]
    [] old[1] \in {"num", "fraction"} -> AsJson(NumberOf[text])
    [] OTHER                          -> <<"panic">>

\* json.Unmarshal of a value into a field of a type; null leaves it alone.
Fits(type, value) ==
  \/ value[1] = "null"
  \/ type \in {"int", "uint"} /\ value[1] = "num" /\ value[2] \in Fitting(type)
  \/ type = "real" /\ value[1] \in {"num", "fraction"}
  \/ type \in {"text", "flag", "list", "ints"} /\ value[1] = type

\* buildOverrideNames goes through the paths in random order, so that of two
\* with the same name either may be the one that is overridden.
BuildOverrideNames ==
  LET one(kept) == \A s \in Settings : Cardinality({k \in kept : NameOf[k] = NameOf[s]}) = 1
  IN {[v \in {NameOf[s] : s \in Settings} |-> CHOOSE s \in kept : NameOf[s] = v] :
        kept \in {k \in SUBSET Settings : one(k)}}

-----------------------------------------------------------------------------
(* The steps of Process *)

\* loadFromFile; a YAML file goes through a map as well, yet keeps its integers.
LoadFromFile ==
  \E envDir, flagDir, envName, flagName \in BOOLEAN :
    LET file == FileAt[ChosenSource(envDir, flagDir), ChosenSource(envName, flagName)] IN
    /\ Goto("load", IF file = "good" THEN "marshal" ELSE "failed")
    /\ IF file = "good"
       THEN config' \in Files
       ELSE UNCHANGED config
    /\ loaded' = config'
    /\ UNCHANGED <<env, configMap, names, pending, level>>

\* The first half of OverrideConfiguration.
Marshal ==
  /\ Goto("marshal", "override")
  /\ configMap' = [s \in Settings |-> AsJson(config[s])]
  /\ names' \in BuildOverrideNames
  /\ pending' = SetVars
  /\ UNCHANGED <<env, config, level, loaded>>

\* getConfigMapValue takes the path apart at every "/", also where it is part of
\* a key, and then finds nothing.
GetConfigMapValue(path) == IF path \in Slashed THEN <<"null">> ELSE configMap[path]

\* setConfigMapValue, for a path that getConfigMapValue has found.
SetConfigMapValue(path, value) == configMap' = [configMap EXCEPT ![path] = value]

\* One round of the loop of OverrideConfigMapValues.
Override(v) ==
  /\ v \in pending
  /\ pending' = pending \ {v}
  /\ IF v \notin DOMAIN names
     THEN UNCHANGED configMap /\ pc = "override" /\ UNCHANGED pc
     ELSE LET new == ConvertToType(GetConfigMapValue(names[v]), env[v])
          IN /\ Goto("override", CASE new[1] = "none"  -> "failed"
                                   [] new[1] = "panic" -> "panicked"
                                   [] OTHER            -> "override")
             /\ IF pc' = "override" THEN SetConfigMapValue(names[v], new) ELSE UNCHANGED configMap
  /\ UNCHANGED <<env, config, names, level, loaded>>

\* ConvertFromMap marshals the map, which NaN prevents, and unmarshals it: a
\* value that does not fit is an error, but the others are set all the same.
Store ==
  LET misfits == {s \in Settings : ~Fits(TypeOf[s], configMap[s])}
      nan == \E s \in Settings : configMap[s] = <<"nan">> IN
  /\ pending = {}
  /\ Goto("override", IF nan \/ misfits # {} THEN "failed" ELSE "level")
  /\ config' = IF nan THEN config
               ELSE [s \in Settings |-> IF s \in misfits \/ configMap[s][1] = "null"
                                        THEN config[s] ELSE configMap[s]]
  /\ UNCHANGED <<env, configMap, names, pending, level, loaded>>

\* Faulty variant: the level of the file is set, whatever overrides it.
SetFileLogLevel ==
  LET wanted == loaded[LevelPath][2] IN
  /\ Goto("level", IF IsValidLogLevel(wanted) THEN "done" ELSE "failed")
  /\ level' = IF IsValidLogLevel(wanted) THEN wanted ELSE level
  /\ UNCHANGED <<env, config, configMap, names, pending, loaded>>

\* Faulty variant: any level will do.
SetAnyLogLevel ==
  /\ Goto("level", "done")
  /\ level' = config[LevelPath][2]
  /\ UNCHANGED <<env, config, configMap, names, pending, loaded>>

\* SetLogLevel knows the levels by their exact spelling.
SetLogLevel ==
  LET wanted == config[LevelPath][2] IN
  /\ Goto("level", IF IsValidLogLevel(wanted) THEN "done" ELSE "failed")
  /\ level' = IF IsValidLogLevel(wanted) THEN wanted ELSE level
  /\ UNCHANGED <<env, config, configMap, names, pending, loaded>>

Ended == pc \in {"done", "failed", "panicked"} /\ UNCHANGED vars

Next ==
  \/ LoadFromFile \/ Marshal \/ Store \/ SetLogLevel \/ Ended
  \/ \E v \in Vars : Override(v)

Spec == Init /\ [][Next]_vars

-----------------------------------------------------------------------------
(* Properties *)

\* The types of the variables.
TypeOK ==
  /\ pc \in {"load", "marshal", "override", "level", "done", "failed", "panicked"}
  /\ env \in [Vars -> Texts \union {Unset}]
  /\ DOMAIN config = Settings /\ DOMAIN configMap = Settings /\ DOMAIN loaded = Settings
  /\ pending \subseteq SetVars
  /\ names = <<>> \/ names \in BuildOverrideNames
  /\ level \in Levels

\* The value a text stands for in a field of a type.
Meaning(type, text) ==
  CASE type \in {"text", "list"}  -> <<type, text>>
    [] type = "flag"              -> FlagOf[text]
    [] OTHER                      -> AsJson(NumberOf[text])

\* A service that starts has exactly the overrides in force: each variable has replaced one
\* of the settings that have its name, with the value the text has for the type
\* of that field, although the code only looks at the JSON type of the old
\* value; and everything else is as in the file, whatever the way through JSON
\* and the map does, except numbers that float64 cannot represent.
OverridesTakeEffect ==
  pc = "done" =>
    /\ \A v \in SetVars : Overrides(v) # {} =>
         \E s \in Overrides(v) : /\ config[s] = Meaning(TypeOf[s], env[v])
                                 /\ \A o \in Overrides(v) \ {s} : config[o] = AsJson(loaded[o])
    /\ \A s \in Settings : NameOf[s] \notin SetVars =>
         \/ config[s] = loaded[s]
         \/ loaded[s][1] = "num" /\ ~Exact(loaded[s][2])

\* The override of this setting by this text would stop the service.
Unacceptable(s, text) ==
  \/ loaded[s][1] = "null" \/ TypeOf[s] = "ints" \/ s \in Slashed
  \/ TypeOf[s] = "flag" /\ FlagOf[text] = <<"none">>
  \/ TypeOf[s] = "real" /\ NumberOf[text][1] \in {"none", "nan"}
  \/ TypeOf[s] \in {"int", "uint"} /\ ~Fits(TypeOf[s], AsJson(NumberOf[text]))

ConfiguredLevel ==
  IF NameOf[LevelPath] \in SetVars THEN env[NameOf[LevelPath]] ELSE loaded[LevelPath][2]

\* Whether a service starts does not depend on the order in which the overrides
\* are tried, as long as their names are their own: it starts only if none of
\* them is unacceptable and has the configured level then, it fails after the
\* file only for a reason, and panics only at a setting that it finds no value for.
OutcomeDecided ==
  /\ pc = "done" =>
       /\ \A s \in Settings : NameOf[s] \in SetVars /\ Overrides(NameOf[s]) = {s}
                                => ~Unacceptable(s, env[NameOf[s]])
       /\ level = ConfiguredLevel
  /\ pc = "failed" /\ loaded # Blank =>
       \/ \E s \in Settings : NameOf[s] \in SetVars /\ Unacceptable(s, env[NameOf[s]])
       \/ \E s \in Settings : /\ TypeOf[s] \in {"int", "uint"}
                               /\ ~Fits(TypeOf[s], AsJson(loaded[s]))
       \/ ConfiguredLevel \notin Levels
  /\ pc = "panicked" =>
       \E s \in Settings : NameOf[s] \in SetVars /\ (loaded[s] = <<"null">> \/ s \in Slashed)

=============================================================================
