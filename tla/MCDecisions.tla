----------------------------- MODULE MCDecisions -----------------------------
(***************************************************************************)
(* One run for the parts of the program that decide without keeping state: *)
(* the questions, and the promises of the parts that Decisions leaves out. *)
(***************************************************************************)
EXTENDS Integers, FiniteSets, Sequences, TLC, Decisions

UpTo(n, S) == UNION {[1 .. k -> S] : k \in 0 .. n}
Maps(K, V) == UNION {[D -> V] : D \in SUBSET K}

-----------------------------------------------------------------------------
(* Commands *)

Cmd == INSTANCE CommandGuards WITH
    ProxiedTools <- {<<"git", "log">>, <<"vitest">>}, SourceFiles <- {"big.go"},
    EditCritical <- {"app.yml"}, QuotedWords <- {"'x'", "'|'", "'browzer'"}
Shell == INSTANCE ShellSkeleton

Heads == {<<"browzer", "run", "git", "log">>, <<"browzer", "explore">>, <<"git", "log">>,
          <<"vitest">>, <<"cat">>, <<"grep", "-r">>, <<"make">>}
Words == {"x", "--", "--no-filter", "--llm", "--json", "big.go", "app.yml", "'|'", "'browzer'"}
Commands == {p \o h \o a \o t : p \in {<<>>, <<"BROWZER_LLM=1">>, <<"'x'">>}, h \in Heads,
                                a \in UpTo(2, Words),
                                t \in {<<>>, <<"|", "wc">>, <<"&&", "make">>, <<"||", "make">>,
                                      <<"2>&1", "|", "wc">>, <<";", "browzer", "explore">>}}

-----------------------------------------------------------------------------
(* Prompts, sessions, environments *)

Prompt == INSTANCE PromptGuard WITH
    StaticVocab <- <<<<"next">>, <<"next", ".", "js">>, <<"redis">>, <<"next", "-", "auth">>,
                     <<"ai", " ", "sdk">>, <<"react">>, <<"render">>>>,
    Extra <- {<<"acme">>, <<"redis">>}, Cues <- (<<"render">> :> {"react", "deploy"}),
    ActionVerbs <- {"use"}, PlanWords <- {"plan"}, ExcludedWords <- {"skipme"}
Phrases == {<<"use">>, <<"next">>, <<"next", "-", "auth">>, <<"next", ".", "js">>, <<"render">>,
            <<"react">>, <<"@", "redis", "/", "client">>, <<"install", " ", "render">>,
            <<"from", " ", "'", ".", "/", "x", "'">>, <<"from", " ", "'", "acme", "'">>,
            <<"ai", " ", "sdk">>, <<"/", "run">>, <<"plan">>, <<"skipme">>,
            <<"install", " ", "@", "corp", "/", "ui">>}
Spoken(s) == CASE Len(s) = 1 -> s[1]
               [] Len(s) = 2 -> s[1] \o <<" ">> \o s[2]
               [] Len(s) = 3 -> s[1] \o <<" ">> \o s[2] \o <<" ">> \o s[3]

GuardCalls == [guard : {"banner", "contract"}, session : {0, 1}, disk : BOOLEAN,
               killed : BOOLEAN, strict : {FALSE}]
              \cup [guard : {"contract"}, session : {1}, disk : {TRUE}, killed : {FALSE}, strict : {TRUE}]

HookEnv == [off |-> FALSE, disabled |-> {}, loggedIn |-> TRUE, projectDirBound |-> FALSE, cwd |-> 2,
            bound |-> {1}, onPath |-> TRUE, starts |-> TRUE, agents |-> {}, statusAnswers |-> TRUE]
HookEnvs ==
    {[HookEnv EXCEPT !.loggedIn = l, !.projectDirBound = p, !.cwd = d, !.bound = b, !.off = o] :
        l, p, o \in BOOLEAN, d \in {0, 3}, b \in SUBSET {0, 1, 3}}
    \cup {[HookEnv EXCEPT !.disabled = {"sync-on-push"}, !.onPath = x, !.starts = y, !.agents = z, !.statusAnswers = w] :
            x, y, w \in BOOLEAN, z \in {{}, {"browzer:a"}}}
HookCall == [parses |-> TRUE, tool |-> "Bash", pushes |-> FALSE, inits |-> FALSE, indexable |-> TRUE,
             file |-> "other", frozen |-> FALSE, agent |-> "", session |-> 1]
HookCalls ==
    {[HookCall EXCEPT !.parses = p, !.tool = t, !.file = f, !.frozen = z, !.agent = a] :
        p, z \in BOOLEAN, t \in {"Edit", "Task"}, f \in {"PRD", "AMENDMENTS"}, a \in {"browzer:a", "browzer:b"}}
    \cup {[HookCall EXCEPT !.pushes = x, !.inits = y, !.session = s] : x, y \in BOOLEAN, s \in {0, 1}}

-----------------------------------------------------------------------------
(* Requests, reviews *)

Outcomes == {"lost", "replyLost", "200", "503", "429", "404", "401"}
Answers == {"304", "running", "completed", "404"}

MemberPrefix == <<"SR", "QA">>
Finding(file, severity) ==
    [file |-> file, line |-> 7, severity |-> severity, status |-> "", domain |-> "",
     description |-> "", fix |-> IF file = "a" THEN "" ELSE "x"]
Findings == {Finding(f, s) : f \in {"a", "b"}, s \in {"high", "low"}}
MemberFiles == [ok : {TRUE}, findings : UpTo(2, Findings)] \cup {[ok |-> FALSE, findings |-> <<>>]}

-----------------------------------------------------------------------------
(* Walks *)

Dirs == {<<"a">>, <<"b">>, <<"a", "c">>, <<"b", "a">>, <<"skills">>, <<"test">>, <<"test", "fixtures">>}
Files == {<<"x">>, <<"a", "x">>, <<"a", "x.md">>, <<"a", "c", "x">>, <<"b", "x">>, <<"b", "x.md">>,
          <<"b", "token">>, <<"b", ".env">>, <<"skills", "x">>, <<"b", "blob">>, <<"b", "CLAUDE.md">>,
          <<"b", "a", "x">>, <<"b", "a", "x.md">>, <<"test", "fixtures", "x">>, <<"test", "fixtures", "x.md">>}
Names == {"x", "x.md", "token", ".env", "CLAUDE.md"}
Tree == INSTANCE Walker WITH
    Entries <- [p \in Dirs |-> "dir"] @@ [p \in Files |-> "file"] @@ (<<"b", "link">> :> "symlink"),
    Listing <- (<<>> :> <<<<"a">>, <<"b">>, <<"skills">>, <<"test">>, <<"x">>>>)
               @@ (<<"a">> :> <<<<"a", "c">>, <<"a", "x">>, <<"a", "x.md">>>>)
               @@ (<<"a", "c">> :> <<<<"a", "c", "x">>>>)
               @@ (<<"skills">> :> <<<<"skills", "x">>>>)
               @@ (<<"b", "a">> :> <<<<"b", "a", "x">>, <<"b", "a", "x.md">>>>)
               @@ (<<"test">> :> <<<<"test", "fixtures">>>>)
               @@ (<<"test", "fixtures">> :> <<<<"test", "fixtures", "x">>, <<"test", "fixtures", "x.md">>>>)
               @@ (<<"b">> :> <<<<"b", ".env">>, <<"b", "CLAUDE.md">>, <<"b", "a">>, <<"b", "blob">>,
                                <<"b", "link">>, <<"b", "token">>, <<"b", "x">>, <<"b", "x.md">>>>),
    Hidden <- {".env"}, SensitiveNames <- {"token", ".env"}, DocNames <- {"x.md", "CLAUDE.md"},
    Content <- [n \in Names |-> [size |-> 40, nonPrint |-> 0, null |-> FALSE]]
               @@ ("blob" :> [size |-> 40, nonPrint |-> 13, null |-> FALSE]),
    DefaultIgnoreDirs <- {"skills"}, MaxDepth <- 3,
    DefaultIgnorePathSuffixes <- {<<"CLAUDE.md">>, <<"test", "fixtures">>}
Pattern == [names : {<<"x">>, <<"x.md">>, <<"c">>, <<"token">>}, negated : BOOLEAN]
One(S) == {<<>>} \cup {<<p>> : p \in S}
Hide(n) == [names |-> n, negated |-> FALSE]
Keep(n) == [names |-> n, negated |-> TRUE]
Trees ==
    [ignore : {(<<>> :> r) @@ (<<"a">> :> a) @@ (<<"a", "c">> :> c)
               @@ [d \in Dirs \ {<<"a">>, <<"a", "c">>} |-> <<>>] :
                  r \in One({Hide(<<"x">>), Keep(<<"x">>), Keep(<<"token">>)}),
                  a \in One(Pattern) \cup {<<Hide(<<"x">>), q>> : q \in Pattern},
                  c \in One({Hide(<<"x">>), Keep(<<"x">>)})},
     browzer : {<<>>, <<Hide(<<"b">>)>>, <<Keep(<<"CLAUDE.md">>)>>,
                <<Keep(<<"test", "fixtures">>)>>, <<Hide(<<"x">>), Keep(<<"a", "x">>)>>}]

-----------------------------------------------------------------------------
(* Outputs *)

LineClasses ==
    [t \in {"vitest", "turbo"} |-> {"fail", "message", "pass", "blank", "bullet"}]
    @@ ("biome" :> {"location", "fail", "warning", "wholeFile", "summary"})
    @@ ("tsc" :> {"error", "prettyError", "underline", "explanation", "summary"})
    @@ ("go test" :> {"fail", "message", "pass", "blank", "okPackage"})
    @@ ("cargo test" :> {"failures", "fail", "result", "detail", "compileError", "pass"})
    @@ ("kubectl" :> {"header", "running", "crashing", "notReady", "blank"})
    @@ ("pnpm install" :> {"added", "removed", "warning", "other"})
    @@ ("terraform" :> {"plan", "resource", "warning", "other"})
    @@ ("git" :> {"branch", "commit", "remote", "warning", "blank", "other"})
Outputs(t) ==
    UpTo(3, LineClasses[t])
    \cup {[i \in 1 .. n |-> IF i = k THEN "warning" ELSE IF i = 1 THEN first ELSE "other"] :
              n \in {4, 11}, k \in {2, 3, 4}, first \in {"commit", "other"}}
TestEvents == {<<"notJson", "", 0>>} \cup {<<"output", k, x>> : k \in {"t1", "t2"}, x \in {1, 2}}
              \cup {<<a, k, 0>> : a \in {"fail", "pass"}, k \in {"t1", "t2"}}
HunksOf(S) == {<<"@@">> \o b : b \in UpTo(2, S) \ {<<>>}}
FileDiffs ==
    {<<"file", "meta">> \o h : h \in HunksOf({"+", "-", "same", "noEol", "--"})}
    \cup {<<"file", "meta">> \o h \o g : h, g \in HunksOf({"+", "-"})}
    \cup {<<"file", "new">> \o h : h \in HunksOf({"+", "++", "noEol"})}
    \cup {<<"file", "deleted">> \o h : h \in HunksOf({"-", "--"})}
    \cup {<<"file", "binary">>, <<"file", "other", "meta", "@@", "-", "+">>}
Numbered(d) == [i \in DOMAIN d |-> <<d[i], i>>]
StatusLines == {"branch", "staged", "unmerged", "untracked", "entry", "hint", "blank", "clean"}

-----------------------------------------------------------------------------
(* Reads and savings *)

Read == [place |-> "workspace", level |-> "auto", workspace |-> 1, parents |-> <<2, 1>>, prose |-> FALSE,
         entry |-> NoEntry, lines |-> <<>>, raw |-> FALSE, ultra |-> FALSE, daemon |-> TRUE,
         offset |-> 0, limit |-> 0]
Symbols == [start : {1, 2, 4}, doc : {TRUE}, signature : BOOLEAN]
FileEntries == [lang : {"go"}, lineCount : {1, 9}, symbols : UpTo(2, Symbols)]
Reads ==
    {[Read EXCEPT !.lines = l, !.level = "minimal"] : l \in UpTo(4, {"code", "text", "note", "blank", "open", "close"})}
    \cup {[Read EXCEPT !.lines = <<"open", "code", "close", "code", "open", "close">>, !.level = "minimal"]}
    \cup {[Read EXCEPT !.lines = l, !.entry = e, !.ultra = u, !.parents = p] :
            l \in [1 .. 3 -> {"code", "note"}], e \in FileEntries, u \in BOOLEAN, p \in {<<2, 1>>, <<2>>}}
    \cup {[Read EXCEPT !.lines = <<"code", "note", "open">>, !.place = p, !.daemon = d, !.offset = o,
                       !.limit = m, !.raw = w, !.level = v, !.prose = q] :
            p \in {"workspace", "secret"}, d, w, q \in BOOLEAN, o \in {0, 1, 4}, m \in {0, 1, 3},
            v \in {"none", "auto", "minimal"}}

LargeReads == [allowed : BOOLEAN, workspace : {TRUE}, exists : BOOLEAN, path : {"code", "doc", "never"},
               size : {0, 20, 39, 40, 41, 160, 161, 400}, binary : BOOLEAN, ranged : BOOLEAN]
Searches == [allowed : BOOLEAN, workspace : BOOLEAN, target : {"code", "config"}, first : BOOLEAN,
             mode : {"block", "soft"}, output : {0, 3, 9}, matched : {0, 2}]

Row(d, s, m, n, f) == [day |-> d, source |-> s, filter |-> IF n < 0 THEN "NULL" ELSE "auto", model |-> m,
                       method |-> "measured", saved |-> n, flushed |-> f]
Rows == {Row(d, s, m, n, FALSE) : d \in {0, 2}, s \in {"cli", "hook-run", "hook-read"},
                                  m \in {"NULL", "<unknown>"}, n \in {-400, 700}}
        \cup {Row(2, s, "NULL", n, FALSE) : s \in {"wasted-rg", "wasted-find"}, n \in {-600, -1}}
        \cup {Row(2, "workflow-audit:x", "m", 9, FALSE), Row(2, "cli", "m", 3, TRUE)}

-----------------------------------------------------------------------------
(* Changes the user asks for *)

Items == {i \in [local : BOOLEAN, indexed : BOOLEAN, changed : BOOLEAN] :
             (i.local \/ i.indexed) /\ (i.changed => i.local)}
Spec(form, paths) == [form |-> form, paths |-> paths]
Named == {Docs!Absent, Spec("list", {1}), Spec("list", {1, 2}), Spec("list", {2, 3}), Spec("glob", {1, 2})}
Flags == {f \in [add : Named \cup {Spec("new", {}), Spec("all", {})}, remove : Named \cup {Spec("none", {})},
                 replace : Named \cup {Spec("all", {}), Spec("none", {}), Spec("malformed", {})},
                 yes : BOOLEAN, iKnow : BOOLEAN, dryRun : {FALSE}] :
            /\ \E g \in {"add", "remove", "replace"} : Docs!Given(f[g])
            /\ f.replace = Docs!Absent \/ f.remove = Docs!Absent}

LocalEntries == {e \in [name : {"n", "m"}, modified : BOOLEAN, deleted : BOOLEAN] : e.deleted => e.modified}
ManifestFiles == {Workspaces!Missing, Workspaces!Corrupt} \cup {Workspaces!Stored(l) : l \in Maps({1, 2}, LocalEntries)}

-----------------------------------------------------------------------------

Init ==
    \/ \E c \in Commands : case = <<"command", c>>
    \/ \E ps \in UpTo(3, Shell!Pieces) :
          (Len(ps) = 3 => ps[2] \in Shell!Bare) /\ case = <<"shell", ps>>
    \/ \E s \in UpTo(3, Phrases) \ {<<>>} : case = <<"prompt", Spoken(s)>>
    \/ \E s \in UpTo(3, GuardCalls) : case = <<"session", s>>
    \/ \E e \in HookEnvs, c \in HookCalls : case = <<"guards", e, c>>
    \/ \E m \in Api!Methods, o \in [1 .. 4 -> Outcomes], k \in {0, 1, 3} : case = <<"request", m, o, k>>
    \/ \E a \in [1 .. 5 -> Answers], t \in {1, 4, 7, 9} : case = <<"poll", a, t>>
    \/ \E strict \in BOOLEAN, d \in UpTo(2, MemberFiles) : case = <<"review", d, strict>>
    \/ \E t \in Trees : case = <<"tree", t>>
    \/ \E t \in DOMAIN LineClasses, on \in BOOLEAN, e \in {0, 1} :
          \E l \in Outputs(t) : case = <<"output", t, on, e, l>>
    \/ \E l \in UpTo(4, TestEvents) : case = <<"tests", l>>
    \/ \E a, b \in FileDiffs : case = <<"diff", Numbered(a \o b)>>
    \/ \E l \in UpTo(4, StatusLines) : case = <<"status", l>>
    \/ \E r \in Reads : case = <<"read", r>>
    \/ \E c \in LargeReads : case = <<"large read", c>>
    \/ \E c \in Searches : case = <<"search", c>>
    \/ \E raw \in 0 .. 6, shown \in 0 .. 9 : case = <<"run", raw, shown>>
    \/ \E e \in UpTo(4, 0 .. 3) : case = <<"results", e>>
    \/ \E rows \in UpTo(2, Rows) : case = <<"gain", rows, 1>>
    \/ \E S \in SUBSET {1, 2}, f \in Flags : \E i \in [S -> Items] : case = <<"docs", i, f>>
    \/ \E f \in ManifestFiles, s \in Maps({1, 2, 3}, {"n", "m"}) : case = <<"manifest", f, s>>

\* The question has been answered.
Next == UNCHANGED case

-----------------------------------------------------------------------------

\* rewrite-bash, `browzer run` and the guards on commands and prompts: rewriting
\* a command changes what runs only from a large file to its digest, settles,
\* hints at the proxy only where it helps, and takes no text in quotes for a
\* command; the skeleton is what stands outside quotes, up to the first piece
\* that is misread; and a prompt is reminded of its topics and of no others.
CommandsKept ==
    /\ case[1] = "command" =>
          /\ Cmd!KeepsCommand(case[2]) /\ Cmd!HintsOfPipesOnly(case[2])
          /\ Cmd!Settles(case[2]) /\ Cmd!QuotesAreText(case[2])
    /\ case[1] = "shell" => Shell!StripsToSkeleton(case[2])
    /\ case[1] = "prompt" => Prompt!RemindsOfTopics(case[2])

\* The walks list nothing private and nothing twice, and what a .gitignore says
\* stays beneath its directory and those of the same name.
WalksStayInBounds == case[1] = "tree" => Tree!NothingPrivate(case[2]) /\ Tree!StaysBeneath(case[2])

=============================================================================
