---------------------------- MODULE MCDeployment -----------------------------
(* A small nginx for TLC: one location, one access key that is rotated and  *)
(* revoked from one configuration to the next, a request signed with the    *)
(* old secret and one signed with the new.                                  *)
EXTENDS Deployment

Tree == [b \in Blocks |-> "http"]

Arg(key, value) == [key |-> key, shape |-> "text", value |-> value]

Flag(key) == [key |-> key, shape |-> "flag", value |-> None]

Line(args) == [access_key |-> Text("A"), args |-> args \o
  <<Flag("allow_any_host"), Flag("allow_default_methods"), Flag("allow_any_prefix")>>]

Lines == {
  Line(<<Arg("secret_key", "old")>>),
  Line(<<Arg("secret_key_file", "rotated")>>),
  Line(<<Arg("secret_key", "old"), Arg("enabled", FALSE)>>),
  Line(<<Arg("secret_key_file", "unreadable")>>) }

Files == [f \in {"rotated", "unreadable"} |-> IF f = "rotated" THEN "new" ELSE Malformed]

Keys == [r \in Requests |->
  [access_key |-> "A", secret_key |-> IF r = "q" THEN "old" ELSE "new"]]
===============================================================================
