----------------------------- MODULE MCModuleConf -----------------------------
(* A small nginx.conf for TLC: one server with one location in it, and the *)
(* credential lines that take each branch of the parser.                   *)
EXTENDS ModuleConf

Tree == [b \in {"server", "location"} |-> IF b = "server" THEN "http" ELSE "server"]

Segments(names) == [i \in DOMAIN names |-> [name |-> names[i], spelling |-> "plain"]]

Arg(key, value) == [key |-> key, shape |-> "text", value |-> value]

Flag(key) == [key |-> key, shape |-> "flag", value |-> None]

Waivers == <<Flag("allow_any_host"), Flag("allow_default_methods"), Flag("allow_any_prefix")>>

Lists == << Arg("allowed_host", Spelled("host", "upper")), Arg("allowed_host", Text("host")),
            Arg("allowed_method", Text("GET")),
            Arg("allowed_prefix", Segments(<<"bucket", "">>)) >>

Literal == Arg("secret_key", "s1")

Line(args) == [access_key |-> Text("A"), args |-> args]

GoodLines == {
  Line(<<Literal>> \o Waivers),
  Line(<<Arg("secret_key_file", "file"), Arg("enabled", FALSE), Arg("max_expires", 1)>> \o Lists),
  [access_key |-> Spelled("B", "padded"), args |-> <<Literal>> \o Lists] }

\* Each line fails for a reason of its own; the last ones fail as late as
\* when they are resolved or compiled.
BadLines == {
  [access_key |-> Text(""), args |-> <<Literal>> \o Waivers],
  Line(Waivers),
  Line(<<Literal, Arg("secret_key_file", "file")>> \o Waivers),
  Line(<<Literal>>),
  Line(<<Literal>> \o Lists \o Waivers),
  Line(<<Literal, Flag("allow_everything")>> \o Waivers),
  Line(<<Literal, Arg("colour", "red")>> \o Waivers),
  Line(<<Literal, [key |-> "allowed_host", shape |-> "empty", value |-> Text("")]>> \o Tail(Waivers)),
  Line(<<Literal, [key |-> "allowed_host", shape |-> "blank", value |-> Text("")]>> \o Tail(Waivers)),
  Line(<<Literal, Arg("enabled", Malformed)>> \o Waivers),
  Line(<<Literal, Arg("enabled", TRUE), Arg("enabled", TRUE)>> \o Waivers),
  Line(<<Literal, Arg("max_expires", 0)>> \o Waivers),
  Line(<<Literal, Arg("max_expires", MaxExpires + 1)>> \o Waivers),
  Line(<<Arg("secret_key_file", "newlines")>> \o Waivers),
  Line(<<Arg("secret_key_file", "unreadable")>> \o Waivers),
  Line(<<Literal, Arg("allowed_host", Text("a host"))>> \o Tail(Waivers)),
  Line(<<Literal, Arg("allowed_prefix", Segments(<<"..">>))>> \o SubSeq(Waivers, 1, 2)) }

Files == [f \in {"file", "newlines", "unreadable"} |->
            IF f = "file" THEN "s1" ELSE IF f = "newlines" THEN "" ELSE Malformed]

Lines == GoodLines \cup BadLines

SomeMethods == {{Text("GET")}, {Spelled("GET", "lower")}}

FlagValues == {FALSE, Malformed}

LimitValues == {0, 2, MaxExpires + 1, Malformed}
===============================================================================
