----------------------------- MODULE RespondMC -----------------------------
(* Instances of Respond for TLC. *)
EXTENDS Respond, TLC

CONSTANTS p1, p2, i1, i2, i3

\* `hollis respond "text"`, on a terminal.
Plain ==
    [model |-> "", text |-> TRUE, file |-> "", docs |-> FALSE, images |-> <<>>,
     schema |-> FALSE, stream |-> FALSE, stdin |-> "tty", noInput |-> FALSE]

Ask(m) == [Plain EXCEPT !.model = m]

\* One for every check, and one for every way through.
Commands == { Plain, Ask("cloud"), Ask("cloud-pro") }

Pictures ==
    { [Ask("cloud") EXCEPT !.images = <<p1, p2>>],
      [Plain EXCEPT !.images = <<p1>>, !.text = FALSE, !.stdin = "piped"] }

Refusals ==
    { Ask("local"), Ask("gpt"),
      [Plain EXCEPT !.docs = TRUE, !.images = <<p1>>],
      [Plain EXCEPT !.schema = TRUE, !.images = <<p1>>],
      [Plain EXCEPT !.schema = TRUE], [Ask("cloud") EXCEPT !.stream = TRUE],
      [Ask("local") EXCEPT !.schema = TRUE, !.stream = TRUE],
      [Plain EXCEPT !.file = "file"],
      [Plain EXCEPT !.docs = TRUE, !.stdin = "piped"],
      [Plain EXCEPT !.text = FALSE, !.file = "file", !.stdin = "piped"],
      [Plain EXCEPT !.text = FALSE, !.docs = TRUE],
      [Plain EXCEPT !.text = FALSE, !.noInput = TRUE],
      [Plain EXCEPT !.text = FALSE, !.stdin = "nothing"],
      [Ask("on-device") EXCEPT !.images = <<p1>>],
      [Ask("chatgpt") EXCEPT !.images = <<p1, p2>>] }

Unset == [t \in Tier |-> ""]
Default == [ok |-> TRUE, model |-> "", bridges |-> Unset]

\* Nothing set; a default model and a UUID; a name that may be stale; what no
\* bridge can be called; and a file that cannot be read.
Settings ==
    { Default,
      [Default EXCEPT !.model = "cloud-pro", !.bridges = [Unset EXCEPT !["on-device"] = "uuid-5", !["cloud-pro"] = "Mine"]],
      [Default EXCEPT !.bridges = [Unset EXCEPT !["cloud"] = "uuid-5", !["on-device"] = "-x"]],
      [Default EXCEPT !.bridges = [Unset EXCEPT !["cloud"] = " "]],
      [Default EXCEPT !.ok = FALSE] }

\* A full one, an old one, and one with few bridges.
Machines ==
    { [major |-> 27, installed |-> {"Cloud", "Cloud.signed", "Cloud Pro", "On-Device", "uuid-5"}],
      [major |-> 26, installed |-> {"Cloud", "Cloud Pro"}],
      [major |-> 27, installed |-> {"On-Device"}] }

\* A third file may take the place of one of them.
OneEach == {p1 :> i1 @@ p2 :> i2}

UuidShaped == Compiled \cup {"uuid-5"}
Known == UuidShaped \cup {"", " ", "-x", "Mine"} \cup UNION {Range(Routes[t].names) : t \in Tier}
Full == CHOOSE mac \in Machines : "uuid-5" \in mac.installed

Scenarios ==
    [request : Commands, config : Settings, mac : Machines]
      \cup [request : Pictures, config : {Default}, mac : {Full}]
      \cup [request : Refusals, config : {Default}, mac : {Full}]
=============================================================================
