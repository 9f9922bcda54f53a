------------------------------- MODULE Endpoint -------------------------------
(***************************************************************************)
(* Which provider boot creates and where that sends its requests: the      *)
(* provider part of boot (cli/main.c), ollama_create, openai_create and    *)
(* the table of providers/registry.c.                                      *)
(*                                                                         *)
(* A URL or a key is what the table can tell of it: the provider whose     *)
(* keyword it holds, or whose prefix it begins with.                       *)
(***************************************************************************)
EXTENDS Integers, Sequences, SequencesExt

Unset   == <<"unset", "">>     \* NULL or empty
Url(of) == <<"url", of>>
Key(of) == <<"key", of>>

\* PROVIDERS.  A key of openrouter also begins like one of openai.
Spec(name, keys, headers) == [name |-> name, keys |-> keys, headers |-> headers]

Providers ==
  <<Spec("openrouter", {Key("openrouter")}, TRUE), Spec("groq", {Key("groq")}, FALSE),
    Spec("together", {}, FALSE), Spec("openai", {Key("openai"), Key("openrouter")}, FALSE)>>

NoSpec == Spec("none", {}, FALSE)

First(Test(_)) ==
  LET i == SelectInSeq(Providers, Test) IN IF i = 0 THEN NoSpec ELSE Providers[i]

registry_find_by_name(name) == First(LAMBDA s : s.name = name)

\* A provider is recognised by the key or by the URL, whichever is in the table first;
\* registry.h has it that keys go before URLs.
registry_detect(key, url) == First(LAMBDA s : key \in s.keys \/ url = Url(s.name))

registry_resolve_url(spec, url) ==
  IF url # Unset THEN url ELSE IF spec # NoSpec THEN <<"default", spec.name>> ELSE Unset

Refused == [api |-> "none", url |-> Unset, auth |-> Unset, headers |-> FALSE]

\* openai_create: a key that is not given is looked for in the environment.
openai_create(name, url, key, env) ==
  LET named    == registry_find_by_name(name)
      spec     == IF named # NoSpec THEN named ELSE registry_detect(key, url)
      resolved == registry_resolve_url(spec, url)
  IN  IF resolved = Unset THEN Refused
      ELSE [api |-> "openai", url |-> resolved, auth |-> IF key # Unset THEN key ELSE env,
            headers |-> spec.headers]

\* ollama_url of aham.conf, or the older url, behind the variable OLLAMA_URL.
OllamaUrl(conf) ==
  CASE conf.ollamaEnv # Unset -> conf.ollamaEnv
    [] conf.ollamaEnv = Unset /\ conf.ollama # Unset -> conf.ollama
    [] conf.ollamaEnv = Unset /\ conf.ollama = Unset /\ conf.legacy # Unset -> conf.legacy
    [] OTHER -> Url("localhost")

\* boot, and the URL and the headers each request is then sent with.
Boot(conf) ==
  IF conf.model = Unset THEN Refused
  ELSE IF conf.type = "ollama"
  THEN [api |-> "ollama", url |-> OllamaUrl(conf), auth |-> Unset, headers |-> FALSE]
  ELSE LET first    == openai_create(conf.type, conf.url, conf.key, conf.env)
           detected == registry_detect(conf.key, conf.url)
       IN  IF first # Refused \/ detected = NoSpec THEN first
           ELSE openai_create(detected.name, conf.url, conf.key, conf.env)

-----------------------------------------------------------------------------

\* "Kept separate from the Ollama URL so that setting url=http://localhost:11434 for
\* Ollama does NOT bleed into remote provider calls": a request goes to the URL set for
\* the kind of provider in use and to no other; without one a remote provider is found
\* by its name or else by its key, and refused if neither says which.
GoesWhereSet(conf) ==
  LET made == Boot(conf)
  IN  conf.model # Unset =>
        CASE conf.type = "ollama" ->
               /\ made.api = "ollama"
               /\ made.url \in {conf.ollamaEnv, conf.ollama, conf.legacy, Url("localhost")}
                                 \ {Unset}
          [] conf.type # "ollama" /\ conf.url # Unset ->
               made.api = "openai" /\ made.url = conf.url
          [] OTHER ->
               LET named == {i \in DOMAIN Providers : Providers[i].name = conf.type}
                   known == IF named # {} THEN named
                            ELSE {i \in DOMAIN Providers : conf.key \in Providers[i].keys}
               IN  IF known = {} THEN made = Refused
                   ELSE /\ made.url = <<"default", Providers[Min(known)].name>>
                        /\ made.headers = Providers[Min(known)].headers
=============================================================================
