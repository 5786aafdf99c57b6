--------------------------- MODULE MCMitmServices ---------------------------
(* Instances of MitmServices for TLC. *)
EXTENDS MitmServices

CONSTANTS main1, t1, i1

\* "long" stands for a key of MAX_NAME characters or more.
Line(indent, kind, key, val) ==
  [indent |-> indent, kind |-> kind, key |-> key, cut |-> IF key = "long" THEN "lon" ELSE key,
   val |-> val, text |-> IF kind = "bare" THEN val ELSE kind]

Lines ==
  {Line(FALSE, "skip", "", "")}
  \cup {Line(i, "section", s, "") : i \in BOOLEAN, s \in {"override_nacp", "long"}}
  \cup {Line(i, "pair", k, v) : i \in BOOLEAN, k \in {"name", ""}, v \in {"a"}}
  \cup {Line(FALSE, "pair", k, "1") : k \in {"startup_user_account", "long"}}
  \cup {Line(i, k, "", "true") : i \in BOOLEAN, k \in {"open", "bare"}}

Section(s) == Line(FALSE, "section", s, "")
Pair(k, v) == Line(FALSE, "pair", k, v)

\* No file; overrides in and outside of their section; a value over two lines.
Configs == {
  <<>>,
  <<Pair("name", "a"), Section("override_nacp"), Pair("name", "b"), Pair("author", "c")>>,
  <<Section("override_nacp"), Pair("startup_user_account", "0"), Line(TRUE, "bare", "", "1"),
    Section("long"), Pair("author", "c")>> }

\* Configurations, and icons smaller and larger than the room and than ns's.
AllRequests ==
  {[cmd |-> c, size |-> 2, config |-> <<>>, icon |-> NoIcon] : c \in {"vulnerability", "other"}}
  \cup [cmd : {"control data"}, size : {2}, config : Configs, icon : {NoIcon}]
  \cup [cmd : {"control data"}, size : {4}, config : {<<>>}, icon : {0, 1, 3}]
  \cup {[cmd |-> "control data", size |-> 1, config |-> <<>>, icon |-> 1]}

\* All files of up to four lines of the kinds above, and those of the requests.
AllFiles == UNION {[1 .. n -> Lines] : n \in 0 .. 4} \cup Configs
================================================================================
