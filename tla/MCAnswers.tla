------------------------------ MODULE MCAnswers ------------------------------
(* Answering a question, for TLC: the rate limiter, the query cache, recall *)
(* with its ranking and citations, the memory store and the alias map.      *)
(* They share no variable here, so they are checked side by side: part says *)
(* which of them moves in a behaviour, the others stay as they begin.       *)
EXTENDS RateLimiter, QueryAnswers, Recall, MemoryStore, AliasMap, TLC

CONSTANT office

VARIABLE part

\* RateLimiter: all users come from one address (an office, a proxy).
OneAddress(u) == office

\* Recall: d1 is a Slack message that the ingestion state knows, d2 an email,
\* d3 a Slack message that is not in the state yet; d1 and d2 come in two snippets.
NoHead == [channel |-> "", sender |-> "", type |-> "", ts |-> 0, permalink |-> ""]
Snippet == [doc |-> "d1", id |-> "i1", key |-> "", file |-> "", head |-> NoHead,
            hits |-> 0, subject |-> 0, text |-> TRUE]

Message == Snippet
MessageHit == [Snippet EXCEPT !.hits = 1]
Mail == [Snippet EXCEPT !.doc = "d2", !.id = "i2", !.subject = 1,
           !.head = [NoHead EXCEPT !.sender = "bob", !.type = "email", !.ts = 2]]
MailRest == [Snippet EXCEPT !.doc = "d2", !.id = "i2", !.hits = 1]
New == [Snippet EXCEPT !.doc = "d3", !.id = "", !.file = "f3",
          !.head = [NoHead EXCEPT !.channel = "gen", !.type = "message", !.ts = 5]]
Wordless == [Snippet EXCEPT !.doc = "d4", !.id = "", !.text = FALSE]

Snips == {Message, MessageHit, Mail, MailRest, New, Wordless}
Lists == UNION {{s \in [1..n -> Snips] : \A i, j \in 1..n : s[i] = s[j] => i = j} : n \in 0..3}

StateEntries == {[id |-> "i1", key |-> "s1", file |-> "f1", channel |-> "eng", user |-> "ann",
                             type |-> "message", ts |-> 3, permalink |-> "p1"]}

Memo(doc, key, n, ts) == [doc |-> doc, key |-> key, hits |-> n, ts |-> ts]
OfMessage == Memo("d1", "s1", 0, 3)
OfMail == Memo("d2", "g2", 1, 2)
OfOther == Memo("d9", "s9", 0, 1)
MemoLists == {<<>>, <<OfMessage>>, <<OfMail>>, <<OfMessage, OfMail>>, <<OfOther, OfMail>>}

NoBias == [channel |-> "", user |-> ""]
Open == [mode |-> "default", recency |-> FALSE, topK |-> 1, channel |-> "", user |-> "",
         type |-> "", sources |-> {}, start |-> 0, end |-> 9, bias |-> NoBias]
Filters == {Open, [Open EXCEPT !.channel = "eng", !.type = "message"],
            [Open EXCEPT !.sources = {"slack"}], [Open EXCEPT !.user = "ann", !.start = 3, !.end = 4]}
Biases == {NoBias, [channel |-> "gen", user |-> "bob"], [channel |-> "eng", user |-> "ann"]}
AllAsks == {[f EXCEPT !.mode = m, !.recency = r, !.topK = k, !.bias = b] :
              f \in Filters, m \in {"default", "exact", "hybrid"}, r \in BOOLEAN,
              k \in 1..3, b \in Biases}

SlackOrGmail(key) == IF key = "g2" THEN "gmail" ELSE "slack"

\* MemoryStore: a message that becomes another, and one that says "@Rahul".
Phrase(by, canon, word) == [by |-> by, canon |-> canon, word |-> word]
Plan == [name |-> "plan", long |-> FALSE,
         header |-> {Phrase("mention", "rahul", "plain")},
         body |-> {Phrase("agreed", "use kafka", "plain"), Phrase("proper", "kafka", "known")}]
NewPlan == [name |-> "newplan", long |-> TRUE,
            header |-> {Phrase("mention", "rahul", "plain")},
            body |-> {Phrase("agreed", "use redis", "plain"), Phrase("code", "kafka", "plain"),
                      Phrase("marker", "ask ann", "plain"), Phrase("proper", "today", "noise"),
                      Phrase("hash", "ops", "plain")}]
Mention == [name |-> "mention", long |-> FALSE, header |-> {},
            body |-> {Phrase("mention", "rahul", "plain"), Phrase("proper", "rahul", "plain"),
                      Phrase("agreed", "use kafka", "plain")}]
Plans == {Plan, NewPlan, Mention}

\* AliasMap: two people called Rahul, an Ann, and two Slack ids.
Rahul == <<"rahul">>
Verma == <<"rahul", "verma">>
Sharma == <<"rahul", "sharma">>
Ann == <<"ann">>
AnnLee == <<"ann", "lee">>
U1 == <<"U1", 0, 0>>
U2 == <<"U2", 0, 0>>

AllNames == {Rahul, Verma, Sharma, Ann, AnnLee}
AllIds == {U1, U2}
AllPairs == {<<U1, Verma>>, <<U1, Rahul>>, <<U2, Rahul>>, <<U2, Sharma>>, <<U2, AnnLee>>}

\* repr: ids before names, names by their words.
ReprOrder ==
  [s \in AllNames \cup AllIds |->
     CASE s = U1 -> 1 [] s = U2 -> 2 [] s = Ann -> 3 [] s = AnnLee -> 4
       [] s = Rahul -> 5 [] s = Sharma -> 6 [] s = Verma -> 7]

Symmetry == Permutations(Threads) \cup Permutations(Requests) \cup Permutations(Workspaces)

Parts == {"limiter", "answers", "recall", "memory", "alias"}

\* The parts that begin in one of many states begin in the emptiest when they do not move.
Still ==
  /\ part = "limiter" \/ limit = Min(Limits)
  /\ part = "recall" \/ (ask = [Open EXCEPT !.topK = 3] /\ response = <<>> /\ memories = <<>>)
  /\ part = "alias" \/ (aliases = {} /\ pairs = {})

Init ==
  /\ part \in Parts
  /\ Still
  /\ RateInit /\ AnswersInit /\ RecallInit /\ MemoryInit /\ AliasInit

Next ==
  /\ UNCHANGED part
  /\ \/ /\ part = "limiter" /\ RateNext
        /\ UNCHANGED <<answersVars, recallVars, memoryVars, aliasVars>>
     \/ /\ part = "answers" /\ AnswersNext
        /\ UNCHANGED <<rateVars, recallVars, memoryVars, aliasVars>>
     \/ /\ part = "recall" /\ RecallNext
        /\ UNCHANGED <<rateVars, answersVars, memoryVars, aliasVars>>
     \/ /\ part = "memory" /\ MemoryNext
        /\ UNCHANGED <<rateVars, answersVars, recallVars, aliasVars>>
     \/ /\ part = "alias" /\ AliasNext
        /\ UNCHANGED <<rateVars, answersVars, recallVars, memoryVars>>

Spec == Init /\ [][Next]_<<part, rateVars, answersVars, recallVars, memoryVars, aliasVars>>
==============================================================================
