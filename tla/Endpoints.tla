----------------------------- MODULE Endpoints ------------------------------
(***************************************************************************)
(* The three entrances for agents: the tools fetch_url and fetch_batch of  *)
(* internal/mcp/tools.go with the readers of internal/mcp/args.go, and     *)
(* POST /fetch of internal/httpserver/server.go.  Each reads the same      *)
(* arguments with code of its own, and gives options to the pipeline.      *)
(* POST /fetch also checks the address before the format and never uses    *)
(* the cache.                                                              *)
(*                                                                         *)
(* Arguments are a function of the names given.  A value has a JSON type   *)
(* and a number: what it counts, 1 for true, 0 for the empty string.       *)
(***************************************************************************)
EXTENDS Selection

IntNames == {"max_chars", "top_k", "char_limit", "timeout_seconds"}
BoolNames == {"include_links", "raw", "frontmatter", "store_full_text", "wayback_fallback"}
StringNames == {"url", "format", "css_selector", "schema_path", "wayback_timestamp", "query"}
Names == IntNames \union BoolNames \union StringNames
BatchNames == {"format", "max_chars", "store_full_text", "char_limit", "concurrency"}

\* JSON types: a fraction is any number that is not written as an integer;
\* strings by what they hold: digits, true or false, another text.
Texts == {"digits", "truth", "text"}
Types == {"number", "fraction", "bool", "null"} \union Texts
Value(type, v) == [type |-> type, v |-> v]

KnownFormats == {0, 1}  \* 0 is none given, 2 an unknown one
WebURLs == {1}          \* 0 is the empty string, 2 of another scheme

\* intArg, boolArg, stringArg: which types they take.  A name that is absent is
\* read as 0.
IntArg(value) == value.type \in {"number", "fraction", "digits"}
BoolArg(value) == value.type \in {"bool", "truth"}
StringArg(value) == value.type \in Texts
Arg(args, name) == IF name \in DOMAIN args THEN args[name].v ELSE 0

Fits(name, value) ==
  \/ name \in IntNames \union {"concurrency"} /\ IntArg(value)
  \/ name \in BoolNames /\ BoolArg(value)
  \/ name \in StringNames /\ StringArg(value)

Accepted(args, names) ==
  /\ \A name \in DOMAIN args \intersect names : Fits(name, args[name])
  /\ Arg(args, "format") \in KnownFormats

PositiveOr(v, default) == IF v > 0 THEN v ELSE default
Capped(v, limit) == IF v > limit THEN limit ELSE v
MaxTimeout == 120
MaxChars == 500000

-----------------------------------------------------------------------------
\* The handler of fetch_url: the options, and the timeout of the call.
FetchURLAccepts(args) ==
  /\ "url" \in DOMAIN args /\ StringArg(args["url"]) /\ args["url"].v \in WebURLs
  /\ Accepted(args, Names)

FetchURLOptions(args) ==
  [name \in Names |->
     CASE name = "max_chars"        -> Capped(PositiveOr(Arg(args, name), 20000), MaxChars)
       [] name = "char_limit"       -> PositiveOr(Arg(args, name), 15000)
       [] name = "timeout_seconds"  -> Capped(PositiveOr(Arg(args, name), 30), MaxTimeout)
       [] name = "top_k"            -> PositiveOr(Arg(args, name), 0)
       [] name = "wayback_fallback" ->
            IF Arg(args, "wayback_timestamp") # 0 THEN 1 ELSE Arg(args, name)
       [] OTHER                     -> Arg(args, name)]

\* The handler of fetch_batch, whose items share the options, and the workers
\* of its pool.
FetchBatchAccepts(args) == Accepted(args, BatchNames)

FetchBatchOptions(args) ==
  [name \in BatchNames |->
     CASE name = "max_chars"   -> Capped(PositiveOr(Arg(args, name), 20000), MaxChars)
       [] name = "char_limit"  -> PositiveOr(Arg(args, name), 15000)
       [] name = "concurrency" -> Capped(PositiveOr(Arg(args, name), 4), 8)
       [] OTHER                -> Arg(args, name)]

\* Its items: the strings that are not empty, unless one has another scheme.
IsItem(u) == u.type \in Texts /\ u.v # 0
FetchBatchRefuses(urls) ==
  urls = << >> \/ Len(urls) > 20 \/ \E i \in DOMAIN urls : IsItem(urls[i]) /\ urls[i].v \notin WebURLs
FetchBatchItems(urls) == Selected(urls, {i \in DOMAIN urls : IsItem(urls[i])})

-----------------------------------------------------------------------------
\* HandleFetch: the JSON decoder takes the exact types, and null for nothing.
Decoded(args, name) ==
  IF name \in DOMAIN args /\ args[name].type # "null" THEN args[name].v ELSE 0

Decodes(name, value) ==
  \/ value.type = "null"
  \/ name \in IntNames /\ value.type = "number"
  \/ name \in BoolNames /\ value.type = "bool"
  \/ name \in StringNames /\ value.type \in Texts

HandleFetchAccepts(args) ==
  /\ \A name \in DOMAIN args \intersect Names : Decodes(name, args[name])
  /\ Decoded(args, "url") \in WebURLs
  /\ Decoded(args, "format") \in KnownFormats

\* Mutant: a timestamp does not ask for the archive.
HandleFetchOptionsAsGiven(args) ==
  [name \in Names |->
     LET v == Decoded(args, name) IN
     CASE name = "max_chars"       -> Capped(PositiveOr(v, 20000), MaxChars)
       [] name = "char_limit"      -> PositiveOr(v, 15000)
       [] name = "timeout_seconds" -> Capped(PositiveOr(v, 30), MaxTimeout)
       [] OTHER                    -> v]

HandleFetchOptions(args) ==
  [name \in Names |->
     LET v == Decoded(args, name) IN
     CASE name = "max_chars"        -> Capped(PositiveOr(v, 20000), MaxChars)
       [] name = "char_limit"       -> PositiveOr(v, 15000)
       [] name = "timeout_seconds"  -> Capped(PositiveOr(v, 30), MaxTimeout)
       [] name = "wayback_fallback" ->
            IF Decoded(args, "wayback_timestamp") # 0 THEN 1 ELSE v
       [] OTHER                     -> v]

-----------------------------------------------------------------------------
\* As the ranking takes it, a top_k that is not positive is none.
Effect(options) == [options EXCEPT !["top_k"] = PositiveOr(@, 0)]
Canonical(value) ==
  CASE value.type \in {"fraction", "digits"} -> Value("number", value.v)
    [] value.type = "truth" -> Value("bool", value.v)
    [] OTHER -> value
CanonicalArgs(args) ==
  [name \in DOMAIN args |-> IF name \in StringNames THEN args[name] ELSE Canonical(args[name])]

\* POST /fetch "mirrors the MCP fetch_url tool" (server.go:2): what fetch_url
\* takes, in whatever spelling, POST /fetch takes in the canonical one, with
\* the same effect, and it takes nothing else but nulls.  The items of a batch
\* get what fetch_url gives one URL.
OptionsAgree(args) ==
  LET same == CanonicalArgs(args)
      noNull == \A name \in DOMAIN args : args[name].type # "null" IN
  /\ FetchURLAccepts(args) =>
       HandleFetchAccepts(same) /\ Effect(HandleFetchOptions(same)) = Effect(FetchURLOptions(args))
  /\ HandleFetchAccepts(args) /\ noNull => FetchURLAccepts(args)
  /\ FetchURLAccepts(args) /\ FetchBatchAccepts(args) =>
       \A name \in BatchNames \intersect Names :
         FetchBatchOptions(args)[name] = FetchURLOptions(args)[name]

\* A batch that is not refused has the URLs that fetch_url would take, in their
\* order.
ItemsAgree(urls) ==
  LET taken == {i \in DOMAIN urls : FetchURLAccepts([url |-> urls[i]])}
      items == FetchBatchItems(urls)
  IN  ~FetchBatchRefuses(urls) =>
        /\ Len(items) = Cardinality(taken)
        /\ \A i \in taken : items[Cardinality({j \in taken : j <= i})] = urls[i]

EntrancesAgree(args, urls) == OptionsAgree(args) /\ ItemsAgree(urls)
=============================================================================
