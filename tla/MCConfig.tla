------------------------------ MODULE MCConfig ------------------------------
(* Instances of Config for TLC: documents of three nodes over short names, *)
(* and the deskbarrc of the repository.                                    *)
EXTENDS Config

Node(kind, atts) == [kind |-> kind, atts |-> atts]
Given(key) == << key, << >> >>

(* c, C and #, which has the hash of c modulo 64, and e with an accent.    *)
(* Among the others are b, which is broken, and t, which needs options.    *)
MCNames == {<< 99 >>, << 67 >>, << 35 >>, << -61, -87 >>}

MCPlugins ==
  {Node("plugin", << << "name", w >>, Given("interval") >>) : w \in MCNames} \cup
  {Node("plugin", << Given("interval"), << "id", v >>, << "name", w >> >>) :
     v \in {<< 99 >>, << 67 >>}, w \in {<< 99 >>, << 35 >>}}

MCObjects ==
  {Node("text", << Given("x"), Given("y"), Given("size"), << "data", w >> >>) :
     w \in MCNames} \cup
  {Node("meter", << << "data", w >>, Given("height"), Given("width"),
                    Given("y"), Given("x") >>) : w \in {<< 99 >>, << 67 >>}}

MCOthers ==
  { Node("display", << >>), Node("display", << Given("version") >>),
    Node("display", << Given("lang") >>), Node("other", << Given("x") >>),
    Node("plugin", << Given("interval") >>), Node("plugin", << >>),
    Node("plugin", << << "name", << 122 >> >> >>),
    Node("plugin", << << "name", << 98 >> >> >>),
    Node("plugin", << << "name", << 116 >> >> >>),
    Node("plugin", << << "id", << 99 >> >>, << "name", << 116 >> >> >>),
    Node("plugin", << << "name", << 116 >> >>, Given("options") >>),
    Node("text", << Given("x"), Given("y"), Given("size"),
                    << "data", << 116 >> >> >>),
    Node("text", << Given("x"), Given("y"), << "data", << 99 >> >>,
                    Given("size"), Given("value") >>),
    Node("text", << Given("x"), Given("y"), Given("size") >>),
    Node("text", << Given("x"), Given("y"), Given("value") >>),
    Node("meter", << Given("x"), Given("y"), Given("width"), Given("height"),
                     Given("value") >>),
    Node("meter", << Given("x"), Given("y"), Given("width"),
                     << "data", << 99 >> >> >>) }

MCDocuments == [1 .. 3 -> MCPlugins \cup MCObjects \cup MCOthers]
MCBeginnings ==
  { << >>, << Node("text", << Given("x"), Given("y"), Given("size"),
                              << "data", << 99 >> >> >>) >> }
MCMemories ==
  {m \in UNION {[1 .. n -> {"x", "nl", "nul"}] : n \in 1 .. 6} : m[1] # "nl"}
MCInstalled ==
  {<< 99 >>, << 67 >>, << 35 >>, << -29, -55 >>, << 98 >>, << 116 >>}
MCHasData   == {<< 99 >>, << 67 >>, << -29, -55 >>, << 116 >>}
MCBroken    == {<< 98 >>}
MCNeedsOptions == {<< 116 >>}

(* deskbarrc: cpu, battery, time and oom; CPU, Battery and Time.           *)
cpu     == << 99, 112, 117 >>
battery == << 98, 97, 116, 116, 101, 114, 121 >>
time    == << 116, 105, 109, 101 >>
oom     == << 111, 111, 109 >>

Plugin(name) == Node("plugin", << << "name", name >>, Given("interval") >>)
Text(att) ==
  Node("text", << Given("x"), Given("y"), Given("font"), Given("size"),
                  Given("color"), att >>)
Meter(name) ==
  Node("meter", << Given("x"), Given("y"), Given("color"), Given("width"),
                   Given("height"), << "data", name >> >>)

MCDeskbarrc ==
  { << Node("display", << >>), Plugin(cpu), Plugin(battery),
       Node("plugin", << << "name", time >>, Given("format"), Given("interval") >>),
       Plugin(oom),
       Text(Given("value")), Meter(<< 67, 80, 85 >>),
       Text(<< "data", << 67, 80, 85 >> >>),
       Text(Given("value")), Meter([battery EXCEPT ![1] = 66]),
       Text(<< "data", [time EXCEPT ![1] = 84] >>) >> }

MCPluginDir   == {cpu, battery, time, oom}
MCPluginsData == {cpu, battery, time}
MCTime        == {time}
=============================================================================
