------------------------------ MODULE MCServing ------------------------------
(***************************************************************************)
(* The web server on small instances, one for each thing several clients,  *)
(* or the content and one client, do at once.                              *)
(***************************************************************************)
EXTENDS Serving

mcPeers == {"poor", "middling", "rich", "stranger"}
mcAllowed == {"poor", "middling", "rich"}
mcKismet == "poor" :> 0 @@ "middling" :> 1 @@ "rich" :> 3 @@ "stranger" :> 0
mcConnections == {"c1", "c2", "c3"}
mcContent == {"a", "b", "d", "e"}
mcLength == "a" :> 1 @@ "b" :> 2 @@ "d" :> 1 @@ "e" :> 1

AFile(parts, sizes) ==
  [found |-> "file", bundle |-> "e", parts |-> parts, sizes |-> sizes, sized |-> sizes # <<>>,
   size |-> Unknown, hash |-> "none"]
Known(outcome) == [AFile(<<>>, <<>>) EXCEPT !.found = outcome]
mcFiles ==
  "plain" :> AFile(<<"a", "b">>, <<>>)
    @@ "sized" :> [AFile(<<"a", "b", "d">>, <<1, 2, 1>>) EXCEPT !.hash = "right", !.size = 4]
    @@ "misSized" :> AFile(<<"a", "b">>, <<1, 1>>)
    @@ "short" :> [AFile(<<"a", "b">>, <<>>) EXCEPT !.size = 4]
    @@ "long" :> [AFile(<<"a", "b">>, <<>>) EXCEPT !.size = 2]
    @@ "other" :> [AFile(<<"a", "b">>, <<1, 2>>) EXCEPT !.hash = "other"]
    @@ [outcome \in {"late", "moved", "directory", "protected", "unusable", "nothing"} |->
          Known(outcome)]
    @@ "empty" :> [AFile(<<>>, <<>>) EXCEPT !.size = 0, !.sized = TRUE, !.hash = "other"]

-----------------------------------------------------------------------------
(* Requests.                                                               *)

NoMatch == [kind |-> "none", tag |-> 0]
Plain ==
  [route |-> "nowhere", signer |-> NoPeer, forged |-> FALSE, body |-> "none", content |-> "a",
   file |-> "plain", range |-> NoRange, head |-> FALSE, local |-> TRUE, site |-> "own",
   page |-> "own", json |-> TRUE, match |-> NoMatch, key |-> "k", value |-> 0, of |-> 0]
By(n) == [Plain EXCEPT !.signer = n]
Get(key) == [Plain EXCEPT !.route = "value", !.key = key]
Put(key, value) ==
  [Plain EXCEPT !.route = "change", !.body = "sent", !.key = key, !.value = value]
AddTo(key, k) == [Put(key, 0) EXCEPT !.of = k]
Drop(key) == [Plain EXCEPT !.route = "drop", !.key = key, !.match = [kind |-> "any", tag |-> 0]]
Push(n, x) == [By(n) EXCEPT !.route = "push", !.content = x, !.body = "sent"]
Data(x) == [Plain EXCEPT !.route = "data", !.content = x]
Of(f, range) == [Plain EXCEPT !.route = "file", !.file = f, !.range = range]

-----------------------------------------------------------------------------
(* Starts.                                                                 *)

Still == [derives |-> 0, leaves |-> 0, failures |-> 0, shuns |-> 0, evictions |-> 0, losses |-> 0]
Start(s1, s2, s3, held1, stored1, may1) ==
  [script |-> "c1" :> s1 @@ "c2" :> s2 @@ "c3" :> s3, held |-> held1, stored |-> stored1, may |-> may1, strict |-> FALSE]
Alone(s, held1, stored1, may1) == Start(s, <<>>, <<>>, held1, stored1, may1)

(* Two pages add to what one value is.                                     *)
Adding ==
  {Start(<<Get("k"), AddTo("k", 1), Get("k"), AddTo("k", 3)>>, <<Get("k"), AddTo("k", 1)>>, <<>>,
         {}, File(1, "k" :> 1 @@ "l" :> 1), [Still EXCEPT !.failures = 1]),
   Start(<<Get("k"), AddTo("k", 1)>>, <<Get("k"), AddTo("k", 1)>>, <<Get("l"), AddTo("l", 1)>>,
         {}, File(1, "k" :> 0 @@ "l" :> 0), [Still EXCEPT !.leaves = 1])}

(* One asks for everything an application may be refused.                  *)
Refused ==
  {Alone(<<Put("k", 1), Put("k", 2), Put("k", 4), Put("l", 3), Drop("k"), Drop("k"),
           [Drop("k") EXCEPT !.match = NoMatch], Get("k"), [Get("k") EXCEPT !.route = "values"],
           Put("l", 1)>>, {}, stored1, Still) :
     stored1 \in {NoFile, [File(1, "k" :> 1) EXCEPT !.usable = FALSE]}}
  \cup
  {Alone(<<Drop("k"), Put("k", 1), Drop("l")>>, {}, File(1, "k" :> 1 @@ "l" :> 5), Still)}
  \cup
  {Alone(<<[put EXCEPT !.body = body, !.json = json], Get("k")>>, {}, NoFile, Still) :
     put \in {Put("k", 1), [Put("k", 1) EXCEPT !.local = FALSE],
              [Put("k", 1) EXCEPT !.site = "host"], [Put("k", 1) EXCEPT !.site = "page"],
              [Put("k", 1) EXCEPT !.page = "other"]},
     body \in {"none", "sent", "garbled", "large", "unsaid", "misframed", "cut"}, json \in BOOLEAN}
  \cup
  {[Alone(<<[Plain EXCEPT !.route = route, !.local = local, !.page = "none", !.signer = signer]>>,
          {}, NoFile, Still) EXCEPT !.strict = strict1] :
     route \in {"config", "configApi", "nowhere", "other", "data", "values", "value", "lists", "inBundle"},
     local \in BOOLEAN, signer \in {NoPeer, "rich"}, strict1 \in BOOLEAN}

(* Peers whose keys are held, or not, or who are none of this node's.      *)
Signing ==
  {Alone(<<[Push("poor", "poor") EXCEPT !.body = body], Push("poor", x),
           [By("poor") EXCEPT !.forged = forged], By("middling"), By("poor")>>,
         {"middling"}, NoFile, Still) :
     body \in {"sent", "large", "unsaid", "cut"}, x \in {"poor", "a"}, forged \in BOOLEAN}
  \cup
  {Alone(<<By(n), By("rich"), By("middling"), By(n), By(n), Push(NoPeer, "a")>>, held1, NoFile, Still) :
     n \in {"poor", "stranger"}, held1 \in {{}, {"stranger", "a"}}}
  \cup
  {Alone(<<[Data(x) EXCEPT !.body = body], Push("rich", x), Data(x), Data(x)>>, {"rich", "a"}, NoFile,
         [Still EXCEPT !.shuns = 1, !.evictions = 1]) : x \in {"a", "b"}, body \in {"none", "sent"}}

(* Three peers use the server at once, one of two connections at times.    *)
Keeping ==
  {Start(<<By("poor"), again>>, <<By("middling"), By(n)>>, <<By("rich")>>, mcPeers, NoFile, Still) :
     n \in {"middling", "poor"}, again \in {By("poor"), Push("poor", "b")}}

(* A file is asked for while its parts come and go.                        *)
mcRanges ==
  {NoRange}
  \cup [form : {"from"}, first : {0, 1, 2, 4}, last : {Unknown, 0, 1, 2}, ifRange : {"none"}]
  \cup [form : {"suffix"}, first : {0}, last : {0, 2, 5}, ifRange : {"none", "same", "another"}]
Streaming ==
  {Alone(<<[Of(f, range) EXCEPT !.head = head], Plain>>, {"a", "b", "d"}, NoFile, Still) :
     f \in DOMAIN mcFiles, range \in mcRanges, head \in BOOLEAN}
  \cup
  {Alone(<<Of(f, range), Plain>>, held1, NoFile,
         [Still EXCEPT !.leaves = 1, !.shuns = 1, !.evictions = 1, !.losses = 1]) :
     f \in {"plain", "sized", "misSized", "other"}, held1 \in {{}, {"a"}, {"b"}, {"a", "b", "d"}},
     range \in {NoRange, [NoRange EXCEPT !.form = "from", !.first = 1, !.last = 2]}}

(* What a path resolves to may be no file.                                 *)
Resolving ==
  {Alone(<<[Of(f, NoRange) EXCEPT !.route = route], Plain>>, {"a"}, NoFile,
         [Still EXCEPT !.shuns = 1, !.losses = 1]) :
     f \in {g \in DOMAIN mcFiles : mcFiles[g].found # "file"} \cup {"plain", "short", "empty"},
     route \in Bundled}

(* Lists are sent, and read once they are derived, or by no trusted page.  *)
Listing ==
  {Alone(<<[By(n) EXCEPT !.route = route, !.body = body, !.key = prefix], Plain>>, {"rich"},
         NoFile, Still) :
     n \in {NoPeer, "poor", "rich"}, route \in Posted, prefix \in {"k", "l"},
     body \in {"none", "sent", "garbled", "large", "unsaid", "cut"}}
  \cup
  {Alone(<<list, [Plain EXCEPT !.route = "lists"]>>, {}, NoFile, [Still EXCEPT !.derives = 1]) :
     list \in {[Plain EXCEPT !.route = route, !.local = local, !.page = page, !.site = site] :
                 route \in {"peers", "client"}, local \in BOOLEAN,
                 page \in {"none", "own", "trusted"}, site \in {"own", "host", "page"}}}

mcStarts == Adding \cup Refused \cup Signing \cup Keeping \cup Streaming \cup Resolving \cup Listing
=============================================================================
