-------------------------- MODULE MCConfigProcess --------------------------
(* Eight settings, two of which have the same override name, and a         *)
(* variable that overrides nothing.                                        *)
EXTENDS ConfigProcess, TLC

MCTypeOf == [LogLevel |-> "text", MaxSize |-> "int", Max_Size |-> "flag",
             Retries |-> "uint", Hosts |-> "list", Ports |-> "ints", Ratio |-> "real", Topics |-> "text"]

MCSettings == DOMAIN MCTypeOf

MCFiles ==
  [LogLevel : {<<"text", "INFO">>, <<"text", "word">>},
   MaxSize  : {<<"num", 2>>, <<"num", 5>>, <<"num", 15>>, <<"num", -5>>, <<"num", -15>>},
   Retries  : {<<"num", 3>>, <<"num", 15>>},
   Max_Size : {<<"flag", TRUE>>},
   Hosts    : {<<"list", "word">>, <<"null">>},
   Ports    : {<<"ints">>},
   Ratio    : {<<"fraction", "2.5">>},
   \* the value at the key "edge/in" of a table
   Topics   : {<<"text", "word">>}]

MCNameOf == [LogLevel |-> "LOGLEVEL", MaxSize |-> "MAX_SIZE", Max_Size |-> "MAX_SIZE",
             Retries |-> "RETRIES", Hosts |-> "HOSTS", Ports |-> "PORTS", Ratio |-> "RATIO",
             Topics |-> "TOPICS"]

MCVars == {MCNameOf[s] : s \in MCSettings} \union {"HOME"}

MCNumberOf == [word |-> <<"none">>, DEBUG |-> <<"none">>, true |-> <<"none">>,
               \* NaN is a number to ParseFloat
               NaN |-> <<"nan">>]
  @@ [t \in {"0", "2.5", "5", "-1"} |-> CASE t = "0"   -> <<"num", 0>>
                                    [] t = "2.5" -> <<"fraction", t>>
                                    [] t = "-1"  -> <<"num", -1>>
                                    [] OTHER     -> <<"num", 5>>]

MCTexts == DOMAIN MCNumberOf

MCFlagOf == [t \in MCTexts |-> CASE t = "true" -> <<"flag", TRUE>>
                                 [] t = "0"    -> <<"flag", FALSE>>
                                 [] OTHER      -> <<"none">>]

MCFileAt == [l \in {"env", "flag", "default"} \X {"env", "flag", "default"} |->
               CASE l = <<"default", "env">>  -> "unsupported"
                 [] l = <<"env", "default">>  -> "mistyped"
                 [] l = <<"flag", "default">> -> "malformed"
                 [] l[1] = l[2]               -> "good"
                 [] OTHER                     -> "missing"]

=============================================================================
