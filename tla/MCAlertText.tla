---------------------------- MODULE MCAlertText ----------------------------
(* Small instances of AlertText for TLC.                                     *)
EXTENDS AlertText

MCArguments == <<"a0", "a1", "a2">>

\* The tokens of a command without equals signs, and what cutting makes of them:
\* per argument its form and its chunks, 0 chunks when it is whole.
Argument(form, chunks) == [form |-> form, chunks |-> chunks]
Token(name, form, text) == [name |-> name, form |-> form, text |-> IF form = "cut" THEN <<>> ELSE <<text>>]
Name(i, k) == <<Arguments[i], k>>
Piece(i, k, form) == Token(Name(i, k), form, Name(i, k))
Count(n) == Token(Argc, "plain", <<"argc", Whole, n>>)
TokensOfCommand(c) ==
  {Count(Len(c))} \cup
  UNION {LET forms == IF c[i].form = "hex" THEN {"hex", "cut"} ELSE {c[i].form}
         IN  {Piece(i, k, form) : k \in IF c[i].chunks = 0 THEN {Whole} ELSE 0..c[i].chunks - 1, form \in forms} :
           i \in DOMAIN c}
Execve(lists) == {[class |-> "EXECVE", tokens |-> l] : l \in lists}

Commands ==
  {<<Argument("hex", 0), Argument("hex", 2)>>, <<Argument("empty", 0), Argument("quoted", 3)>>}

\* Arguments whose text in quotes holds pairs: of another argument, of none, of argc.
Found(name, form) == Token(name, form, name \o <<"in quotes">>)
PairsInQuotes ==
  {{<<Count(2)>>,
    <<Piece(1, 0, "quoted"), Found(Name(2, Whole), "hex"), Found(Name(3, 1), "plain")>>,
    <<Piece(1, 1, "quoted"), Found(Name(2, 1), "cut"), Found(<<"\"b", Whole>>, "plain")>>,
    <<Piece(2, 0, "hex")>>, <<Piece(2, 1, "hex")>>},
   {<<Count(2)>>,
    <<Piece(1, Whole, "quoted"), Count(0)>>,
    <<Piece(2, Whole, "quoted"), Token(<<"argc", 0>>, "plain", <<"argc", 0, 1>>), Found(Name(1, Whole), "hex")>>,
    <<Piece(1, Whole, "hex")>>}}

Field(name, form, text) == [name |-> <<name, Whole>>, form |-> form, text |-> text]
Record(class, tokens) == [class |-> class, tokens |-> tokens]

\* The records of a system call that touches two paths and two processes.
SystemCall ==
  {Record("SYSCALL", <<Field("exe", "quoted", <<"e">>), Field("key", "quoted", <<"k">>)>>),
   Record("OBJ_PID", <<Field("opid", "plain", <<"1">>), Field("ocomm", "quoted", <<"a">>)>>),
   Record("OBJ_PID", <<Field("opid", "plain", <<"2">>), Field("ocomm", "plain", <<"b">>)>>),
   Record("PATH", <<Field("item", "plain", <<"0">>), Field("name", "quoted", <<"x">>)>>),
   Record("PATH", <<Field("item", "plain", <<"1">>)>>)}

\* A record whose key looks like a variable of a template.
NastyKey ==
  {Record("SYSCALL", <<Field("key", "quoted", <<"%", "N", "%">>)>>),
   Record("CONFIG_CHANGE", <<Field("key", "quoted", <<"k">>)>>)}

\* Texts in quotes that hold a key, readable and not, beside the key there is.
KeyInQuotes ==
  {Record("SYSCALL", <<Field("comm", "quoted", <<"c">>), Field("key", "hex", <<"A">>), Field("key", "quoted", <<"k">>)>>),
   Record("CONFIG_CHANGE", <<Field("op", "quoted", <<"o">>), Field("key", "cut", <<>>)>>),
   Record("OBJ_PID", <<Field("ocomm", "quoted", <<"a">>), Field("key", "hex", <<"A">>)>>)}

\* A connect to each kind of address, and to one of an unknown family that is
\* too long to be looked into.
Connect(form, text) ==
  {Record("SYSCALL", <<Field("exe", "quoted", <<"e">>)>>), Record("SOCKADDR", <<Field("saddr", form, text)>>)}
Connects ==
  {Connect("address", <<"AF_INET", "10.0.0.1", "22", "">>),
   Connect("address", <<"AF_UNIX", "127.0.0.1", "0", "/run/s">>),
   Connect("address", <<"AF_UNIX", "127.0.0.1", "0", "">>),
   Connect("address", <<"", "", "0", "">>),
   Connect("plain", <<"long">>)}

Plain == {Execve({<<x>> : x \in TokensOfCommand(c)}) : c \in Commands}
MCRecordSets ==
  Plain \cup {Execve(R) : R \in PairsInQuotes} \cup Connects \cup {SystemCall, NastyKey, KeyInQuotes}
MCMaxRecords ==
  [R \in MCRecordSets |-> CASE R = NastyKey -> 2 [] R \in Connects \cup {KeyInQuotes} -> 3
                                [] R # SystemCall /\ Cardinality(R) = 5 -> 5 [] OTHER -> 4]
MCClassOrder == <<"CONFIG_CHANGE", "EXECVE", "OBJ_PID", "PATH", "SOCKADDR", "SYSCALL">>

UpTo(S, n) == UNION {[1..m -> S] : m \in 0..n}
Styles == {<<"%", "+", "%", "-">>, <<"%", "$", "%", "%", "+", "%">>, <<"%", "#", "%", "%", "-", "%">>}
MCTemplatesFor ==
  [R \in MCRecordSets |->
     IF R = NastyKey THEN UpTo({"%", "-", "N"}, 6)
     ELSE IF R \in {SystemCall, KeyInQuotes} THEN Styles ELSE {}]
MCRuleName == <<"r">>
MCTags == <<"tag0", "tag1", "tag2">>
MCUpperCase == [k |-> "K"]
=============================================================================
