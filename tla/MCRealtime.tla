------------------------------ MODULE MCRealtime ------------------------------
EXTENDS RealtimeBridge

From(kind, call) == [kind |-> kind, call |-> call, n |-> 0]

BothCalls == CHOOSE calls \in Calls \X Calls : calls[1] # calls[2]

TestClientMessages ==
  [rough \in BOOLEAN |->
     {From("setup", NoCall), From("content", NoCall)}
       \cup IF rough THEN {}
            ELSE {From("foreign", NoCall), From("empty", NoCall)}
                   \cup {From("content", BothCalls[1])}
                   \cup {From("result", call) : call \in Calls}]

Message(type, media, complete, calls, usage) ==
  [type |-> type, media |-> media, complete |-> complete, calls |-> calls,
   usage |-> usage, piece |-> 0]

TestGeminiMessages ==
  [rough \in BOOLEAN |->
     {Message("setupComplete", {}, "no", <<>>, FALSE),
      Message("content", {"text"}, "no", <<>>, FALSE)}
       \cup IF rough THEN {}
            ELSE {Message("foreign", {}, "no", <<>>, FALSE),
                  Message("usage", {}, "no", <<>>, TRUE),
                  Message("content", {}, "generation", <<>>, FALSE),
                  Message("content", Media, "no", <<>>, FALSE),
                  Message("content", {}, "turn", <<>>, FALSE),
                  Message("content", {"audio"}, "turn", <<>>, TRUE),
                  Message("content", {"text"}, "interrupted", <<>>, FALSE)}
                   \cup {Message("toolCall", {}, "no", BothCalls, TRUE)}]

Pair(rough, asks, answers, targets) ==
  [rough |-> rough, asks |-> asks, answers |-> answers, targets |-> targets]

TestPeers ==
  {Pair({}, 3, 2, 1), Pair({}, 0, 3, 1), Pair({"down"}, 2, 1, 1), Pair({"up"}, 1, 1, 1),
   Pair(Ends, 0, 0, 1), Pair({}, 0, 0, 2)}
=============================================================================
