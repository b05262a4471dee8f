-------------------------- MODULE SessionLifeProofs --------------------------
(* Theorems of SessionLife for every kind of session, any number of chunks *)
(* and payloads and every window: the types, what is sent and when, and    *)
(* that Close releases what its goroutines wait for.                       *)
EXTENDS SessionLife, SequenceTheorems, TLAPS

USE SessionLifeAssumption DEF SessionLifeAssumption

Replyable == {"method", "nomethod", "failure", "success", "data"}

-----------------------------------------------------------------------------
(* Which goroutines there are: those of a started session, with the third  *)
(* one for a shell; and which openers pass which stations.                 *)
Started ==
    /\ opener # "ran" => reader = "none" /\ writer = "none" /\ waiter = "none"
    /\ opener = "ran" => reader # "none" /\ writer # "none"
    /\ waiter # "none" <=> Shell /\ opener = "ran"
    /\ opener \in {"greeting", "request", "replying"} => kind = "socks"
    /\ opener = "dial" => kind = "dialled" /\ app = "none"
    /\ opener = "refused" => ~Client
    /\ opener = "hook" => ~Client
    /\ opener \in {"terminal", "process"} => Shell
    /\ Shell /\ opener \notin {"spawn", "ran"} => app = "none"
    /\ reader = "closing" => ~Shell
    /\ writer = "closing" => ~Shell

(* What was counted: a frame in the reader's hands, and the close messages *)
(* by whoever sends them.                                                  *)
Counted ==
    /\ reader \in {"none", "read"} => published = read
    /\ reader = "write" => read = published + 1
    /\ Shell => told = (IF waiter \in {"closing", "ended"} THEN 1 ELSE 0)
    /\ ~Shell => told = (IF once \in {"told", "done"} THEN 1 ELSE 0)

LEMMA ReplyType ==
    ASSUME toApp \in Seq(Replyable), NEW r \in Replyable
    PROVE  /\ Append(toApp, r) \in Seq(Replyable)
           /\ Len(toApp) \in Nat
           /\ Len(Append(toApp, r)) = Len(toApp) + 1
           /\ \A k \in 1..Len(toApp) : Append(toApp, r)[k] = toApp[k]
           /\ Append(toApp, r)[Len(toApp) + 1] = r
BY AppendProperties, LenProperties

LEMMA TypeStep ==
    ASSUME TypeOK, Started, Counted, [Next]_vars
    PROVE  TypeOK'
<1> USE DEF TypeOK, Started, Counted, Shell, Client, world, opening, data
<1>r. ASSUME NEW r \in Replyable, ReplyTo(r)
      PROVE  toApp' \in Seq({"method", "nomethod", "failure", "success", "data"})
  BY <1>r, ReplyType DEF ReplyTo, Replyable
<1>1. CASE Add
  <2>1. inMap' \in BOOLEAN
    BY <1>1, Zenon DEF Add
  <2> QED
    BY <1>1, <2>1 DEF Add
<1>2. CASE SetHook
  BY <1>2 DEF SetHook
<1>3. CASE Opened
  <2>1. toApp' \in Seq({"method", "nomethod", "failure", "success", "data"})
    BY <1>3, <1>r DEF Opened, Replyable
  <2>2. inMap' \in BOOLEAN
    BY <1>3, Zenon DEF Opened, GiveUp, ReplyTo, AfterAck
  <2> QED
    BY <1>3, <2>1, <2>2 DEF Opened, GiveUp, AfterAck
<1>4. CASE Reply
  <2>1. toApp' \in Seq({"method", "nomethod", "failure", "success", "data"})
    BY <1>4, <1>r DEF Reply, Replyable
  <2>2. inMap' \in BOOLEAN
    BY <1>4, Zenon DEF Reply, GiveUp, ReplyTo
  <2> QED
    BY <1>4, <2>1, <2>2 DEF Reply, GiveUp
<1>5. CASE StartContext
  BY <1>5 DEF StartContext
<1>6. CASE OpenTerminal
  <2>1. inMap' \in BOOLEAN
    BY <1>6, Zenon DEF OpenTerminal
  <2> QED
    BY <1>6, <2>1 DEF OpenTerminal
<1>7. CASE StartProcess
  <2>1. inMap' \in BOOLEAN
    BY <1>7, Zenon DEF StartProcess, GiveUp
  <2> QED
    BY <1>7, <2>1 DEF StartProcess, GiveUp
<1>8. CASE Spawn
  BY <1>8 DEF Spawn
<1>9. CASE Read
  BY <1>9 DEF Read
<1>10. CASE ReadEnds
  BY <1>10 DEF ReadEnds, AtEnd
<1>11. CASE Publish
  BY <1>11 DEF Publish, HasWindow
<1>12. CASE PublishFails
  BY <1>12 DEF PublishFails, AtEnd, HasWindow
<1>13. CASE Take
  BY <1>13 DEF Take
<1>14. CASE DeliverFails
  BY <1>14 DEF DeliverFails, AtEnd
<1>15. CASE WriterStops
  BY <1>15 DEF WriterStops, AtEnd
<1>16. CASE Kill
  BY <1>16 DEF Kill
<1>17. CASE Reap
  BY <1>17 DEF Reap
<1>18. CASE AwaitReader
  BY <1>18 DEF AwaitReader, Drained
<1>19. CASE TellExit
  BY <1>19 DEF TellExit
<1>20. CASE CloseCancels
  BY <1>20 DEF CloseCancels, Cancel, Closing
<1>21. CASE CloseShuts
  BY <1>21 DEF CloseShuts
<1>22. CASE CloseTells
  BY <1>22 DEF CloseTells, CloseMessages
<1>23. CASE CloseHook
  BY <1>23 DEF CloseHook
<1>24. CASE CloseReturns
  BY <1>24 DEF CloseReturns
<1>25. CASE HandlerReturns
  <2>1. inMap' \in BOOLEAN
    BY <1>25, Zenon DEF HandlerReturns
  <2> QED
    BY <1>25, <2>1 DEF HandlerReturns
<1>26. CASE Greeting
  <2>1. toApp' \in Seq({"method", "nomethod", "failure", "success", "data"})
    BY <1>26, <1>r DEF Greeting, Replyable
  <2> QED
    BY <1>26, <2>1 DEF Greeting, GiveUp
<1>27. CASE Request
  <2>1. toApp' \in Seq({"method", "nomethod", "failure", "success", "data"})
    BY <1>27, <1>r DEF Request, Replyable
  <2> QED
    BY <1>27, <2>1 DEF Request, GiveUp
<1>28. CASE Dial
  BY <1>28 DEF Dial
<1>29. CASE Deliver
  <2>1. toApp' \in Seq({"method", "nomethod", "failure", "success", "data"})
    BY <1>29, <1>r DEF Deliver, Replyable
  <2> QED
    BY <1>29, <2>1 DEF Deliver
<1>30. CASE HandlerCloses
  BY <1>30 DEF HandlerCloses
<1>31. CASE AppWrites
  BY <1>31 DEF AppWrites
<1>32. CASE AppEnds
  BY <1>32 DEF AppEnds
<1>33. CASE Arrive
  BY <1>33 DEF Arrive
<1>34. CASE Ack
  BY <1>34 DEF Ack
<1>35. CASE CommandEnds
  BY <1>35 DEF CommandEnds
<1>36. CASE LinkLost
  BY <1>36 DEF LinkLost
<1>37. CASE UNCHANGED vars
  BY <1>37 DEF vars
<1> QED
  BY <1>1, <1>2, <1>3, <1>4, <1>5, <1>6, <1>7, <1>8, <1>9, <1>10, <1>11,
     <1>12, <1>13, <1>14, <1>15, <1>16, <1>17, <1>18, <1>19, <1>20, <1>21,
     <1>22, <1>23, <1>24, <1>25, <1>26, <1>27, <1>28, <1>29, <1>30, <1>31,
     <1>32, <1>33, <1>34, <1>35, <1>36, <1>37
     DEF Next, Goroutines, Others

LEMMA StartedStep ==
    ASSUME TypeOK, Started, [Next]_vars
    PROVE  Started'
<1> USE DEF TypeOK, Started, Shell, Client, world, opening, data
<1>1. CASE Add
  BY <1>1 DEF Add
<1>2. CASE SetHook
  BY <1>2 DEF SetHook
<1>3. CASE Opened
  BY <1>3 DEF Opened, GiveUp, ReplyTo, AfterAck
<1>4. CASE Reply
  BY <1>4 DEF Reply, GiveUp, ReplyTo
<1>5. CASE StartContext
  BY <1>5 DEF StartContext
<1>6. CASE OpenTerminal
  BY <1>6 DEF OpenTerminal
<1>7. CASE StartProcess
  BY <1>7 DEF StartProcess, GiveUp
<1>8. CASE Spawn
  BY <1>8 DEF Spawn
<1>9. CASE Read
  BY <1>9 DEF Read
<1>10. CASE ReadEnds
  BY <1>10 DEF ReadEnds, AtEnd
<1>11. CASE Publish
  BY <1>11 DEF Publish, HasWindow
<1>12. CASE PublishFails
  BY <1>12 DEF PublishFails, AtEnd, HasWindow
<1>13. CASE Take
  BY <1>13 DEF Take
<1>14. CASE DeliverFails
  BY <1>14 DEF DeliverFails, AtEnd
<1>15. CASE WriterStops
  BY <1>15 DEF WriterStops, AtEnd
<1>16. CASE Kill
  BY <1>16 DEF Kill
<1>17. CASE Reap
  BY <1>17 DEF Reap
<1>18. CASE AwaitReader
  BY <1>18 DEF AwaitReader, Drained
<1>19. CASE TellExit
  BY <1>19 DEF TellExit
<1>20. CASE CloseCancels
  BY <1>20 DEF CloseCancels, Cancel, Closing
<1>21. CASE CloseShuts
  BY <1>21 DEF CloseShuts
<1>22. CASE CloseTells
  BY <1>22 DEF CloseTells, CloseMessages
<1>23. CASE CloseHook
  BY <1>23 DEF CloseHook
<1>24. CASE CloseReturns
  BY <1>24 DEF CloseReturns
<1>25. CASE HandlerReturns
  BY <1>25 DEF HandlerReturns
<1>26. CASE Greeting
  BY <1>26 DEF Greeting, GiveUp, ReplyTo
<1>27. CASE Request
  BY <1>27 DEF Request, GiveUp, ReplyTo
<1>28. CASE Dial
  BY <1>28 DEF Dial
<1>29. CASE Deliver
  BY <1>29 DEF Deliver, ReplyTo
<1>30. CASE HandlerCloses
  BY <1>30 DEF HandlerCloses
<1>31. CASE AppWrites
  BY <1>31 DEF AppWrites
<1>32. CASE AppEnds
  BY <1>32 DEF AppEnds
<1>33. CASE Arrive
  BY <1>33 DEF Arrive
<1>34. CASE Ack
  BY <1>34 DEF Ack
<1>35. CASE CommandEnds
  BY <1>35 DEF CommandEnds
<1>36. CASE LinkLost
  BY <1>36 DEF LinkLost
<1>37. CASE UNCHANGED vars
  BY <1>37 DEF vars
<1> QED
  BY <1>1, <1>2, <1>3, <1>4, <1>5, <1>6, <1>7, <1>8, <1>9, <1>10, <1>11,
     <1>12, <1>13, <1>14, <1>15, <1>16, <1>17, <1>18, <1>19, <1>20, <1>21,
     <1>22, <1>23, <1>24, <1>25, <1>26, <1>27, <1>28, <1>29, <1>30, <1>31,
     <1>32, <1>33, <1>34, <1>35, <1>36, <1>37
     DEF Next, Goroutines, Others

LEMMA CountedStep ==
    ASSUME TypeOK, Started, Counted, [Next]_vars
    PROVE  Counted'
<1> USE DEF TypeOK, Started, Counted, Shell, Client, world, opening, data
<1>1. CASE Add
  BY <1>1 DEF Add
<1>2. CASE SetHook
  BY <1>2 DEF SetHook
<1>3. CASE Opened
  BY <1>3 DEF Opened, GiveUp, ReplyTo, AfterAck
<1>4. CASE Reply
  BY <1>4 DEF Reply, GiveUp, ReplyTo
<1>5. CASE StartContext
  BY <1>5 DEF StartContext
<1>6. CASE OpenTerminal
  BY <1>6 DEF OpenTerminal
<1>7. CASE StartProcess
  BY <1>7 DEF StartProcess, GiveUp
<1>8. CASE Spawn
  BY <1>8 DEF Spawn
<1>9. CASE Read
  BY <1>9 DEF Read
<1>10. CASE ReadEnds
  BY <1>10 DEF ReadEnds, AtEnd
<1>11. CASE Publish
  BY <1>11 DEF Publish, HasWindow
<1>12. CASE PublishFails
  BY <1>12 DEF PublishFails, AtEnd, HasWindow
<1>13. CASE Take
  BY <1>13 DEF Take
<1>14. CASE DeliverFails
  BY <1>14 DEF DeliverFails, AtEnd
<1>15. CASE WriterStops
  BY <1>15 DEF WriterStops, AtEnd
<1>16. CASE Kill
  BY <1>16 DEF Kill
<1>17. CASE Reap
  BY <1>17 DEF Reap
<1>18. CASE AwaitReader
  BY <1>18 DEF AwaitReader, Drained
<1>19. CASE TellExit
  BY <1>19 DEF TellExit
<1>20. CASE CloseCancels
  BY <1>20 DEF CloseCancels, Cancel, Closing
<1>21. CASE CloseShuts
  BY <1>21 DEF CloseShuts
<1>22. CASE CloseTells
  BY <1>22 DEF CloseTells, CloseMessages
<1>23. CASE CloseHook
  BY <1>23 DEF CloseHook
<1>24. CASE CloseReturns
  BY <1>24 DEF CloseReturns
<1>25. CASE HandlerReturns
  BY <1>25 DEF HandlerReturns
<1>26. CASE Greeting
  BY <1>26 DEF Greeting, GiveUp, ReplyTo
<1>27. CASE Request
  BY <1>27 DEF Request, GiveUp, ReplyTo
<1>28. CASE Dial
  BY <1>28 DEF Dial
<1>29. CASE Deliver
  BY <1>29 DEF Deliver, ReplyTo
<1>30. CASE HandlerCloses
  BY <1>30 DEF HandlerCloses
<1>31. CASE AppWrites
  BY <1>31 DEF AppWrites
<1>32. CASE AppEnds
  BY <1>32 DEF AppEnds
<1>33. CASE Arrive
  BY <1>33 DEF Arrive
<1>34. CASE Ack
  BY <1>34 DEF Ack
<1>35. CASE CommandEnds
  BY <1>35 DEF CommandEnds
<1>36. CASE LinkLost
  BY <1>36 DEF LinkLost
<1>37. CASE UNCHANGED vars
  BY <1>37 DEF vars
<1> QED
  BY <1>1, <1>2, <1>3, <1>4, <1>5, <1>6, <1>7, <1>8, <1>9, <1>10, <1>11,
     <1>12, <1>13, <1>14, <1>15, <1>16, <1>17, <1>18, <1>19, <1>20, <1>21,
     <1>22, <1>23, <1>24, <1>25, <1>26, <1>27, <1>28, <1>29, <1>30, <1>31,
     <1>32, <1>33, <1>34, <1>35, <1>36, <1>37
     DEF Next, Goroutines, Others

-----------------------------------------------------------------------------
(* As long as nothing interferes, a session comes to its end only one way: *)
(* the program has ended, the reader has read all of its output and has    *)
(* published it.                                                           *)
Calm ==
    /\ link = "up" /\ handler = "idle" /\ cmd = "live"
    /\ app \in {"none", "on", "eof"}

Over ==
    \/ reader \in {"closing", "ended"} \/ waiter \in {"tell", "closing", "ended"}
    \/ ~Shell /\ writer \in {"closing", "ended"}
    \/ once # "no" \/ ctx = "ended"
    \/ endp = "closed" /\ opener # "gaveup"

TailInv == Calm /\ Over => app = "eof" /\ read = made /\ published = made

LEMMA TailStep ==
    ASSUME TypeOK, Started, Counted, TailInv, [Next]_vars
    PROVE  TailInv'
<1> USE DEF TypeOK, Started, Counted, TailInv, Calm, Over, Shell, Client, world, opening, data
<1>1. CASE Add
  BY <1>1 DEF Add
<1>2. CASE SetHook
  BY <1>2 DEF SetHook
<1>3. CASE Opened
  BY <1>3 DEF Opened, GiveUp, ReplyTo, AfterAck
<1>4. CASE Reply
  BY <1>4 DEF Reply, GiveUp, ReplyTo
<1>5. CASE StartContext
  BY <1>5 DEF StartContext
<1>6. CASE OpenTerminal
  BY <1>6 DEF OpenTerminal
<1>7. CASE StartProcess
  BY <1>7 DEF StartProcess, GiveUp
<1>8. CASE Spawn
  BY <1>8 DEF Spawn
<1>9. CASE Read
  BY <1>9 DEF Read
<1>10. CASE ReadEnds
  BY <1>10 DEF ReadEnds, AtEnd
<1>11. CASE Publish
  BY <1>11 DEF Publish, HasWindow
<1>12. CASE PublishFails
  BY <1>12 DEF PublishFails, AtEnd, HasWindow
<1>13. CASE Take
  BY <1>13 DEF Take
<1>14. CASE DeliverFails
  BY <1>14 DEF DeliverFails, AtEnd
<1>15. CASE WriterStops
  BY <1>15 DEF WriterStops, AtEnd
<1>16. CASE Kill
  BY <1>16 DEF Kill
<1>17. CASE Reap
  BY <1>17 DEF Reap
<1>18. CASE AwaitReader
  BY <1>18 DEF AwaitReader, Drained
<1>19. CASE TellExit
  BY <1>19 DEF TellExit
<1>20. CASE CloseCancels
  BY <1>20 DEF CloseCancels, Cancel, Closing
<1>21. CASE CloseShuts
  BY <1>21 DEF CloseShuts
<1>22. CASE CloseTells
  BY <1>22 DEF CloseTells, CloseMessages
<1>23. CASE CloseHook
  BY <1>23 DEF CloseHook
<1>24. CASE CloseReturns
  BY <1>24 DEF CloseReturns
<1>25. CASE HandlerReturns
  BY <1>25 DEF HandlerReturns
<1>26. CASE Greeting
  BY <1>26 DEF Greeting, GiveUp, ReplyTo
<1>27. CASE Request
  BY <1>27 DEF Request, GiveUp, ReplyTo
<1>28. CASE Dial
  BY <1>28 DEF Dial
<1>29. CASE Deliver
  BY <1>29 DEF Deliver, ReplyTo
<1>30. CASE HandlerCloses
  BY <1>30 DEF HandlerCloses
<1>31. CASE AppWrites
  BY <1>31 DEF AppWrites
<1>32. CASE AppEnds
  BY <1>32 DEF AppEnds
<1>33. CASE Arrive
  BY <1>33 DEF Arrive
<1>34. CASE Ack
  BY <1>34 DEF Ack
<1>35. CASE CommandEnds
  BY <1>35 DEF CommandEnds
<1>36. CASE LinkLost
  BY <1>36 DEF LinkLost
<1>37. CASE UNCHANGED vars
  BY <1>37 DEF vars
<1> QED
  BY <1>1, <1>2, <1>3, <1>4, <1>5, <1>6, <1>7, <1>8, <1>9, <1>10, <1>11,
     <1>12, <1>13, <1>14, <1>15, <1>16, <1>17, <1>18, <1>19, <1>20, <1>21,
     <1>22, <1>23, <1>24, <1>25, <1>26, <1>27, <1>28, <1>29, <1>30, <1>31,
     <1>32, <1>33, <1>34, <1>35, <1>36, <1>37
     DEF Next, Goroutines, Others

(* The replies a SOCKS client has had, by where its opener stands. *)
Replies ==
    /\ kind # "socks" => toApp = <<>>
    /\ kind = "socks" =>
         /\ opener = "greeting" => toApp = <<>>
         /\ opener \in {"request", "add", "opening", "replying"} => toApp = <<"method">>
         /\ opener \in {"start", "spawn", "ran"} =>
              /\ Len(toApp) >= 2 /\ toApp[1] = "method" /\ toApp[2] = "success"
              /\ \A k \in 3..Len(toApp) : toApp[k] = "data"
         /\ opener = "gaveup" =>
              toApp \in {<<>>, <<"nomethod">>, <<"method">>, <<"method", "failure">>}

LEMMA TwoReplies ==
    ASSUME NEW x, NEW y
    PROVE  Append(<<x>>, y) = <<x, y>>
<1> DEFINE S == {x, y}
<1>1. <<x>> \in Seq(S) /\ <<x, y>> \in Seq(S) /\ Append(<<x>>, y) \in Seq(S)
  OBVIOUS
<1>2. Len(Append(<<x>>, y)) = 2 /\ Len(<<x, y>>) = 2
  OBVIOUS
<1>3. \A i \in 1..2 : Append(<<x>>, y)[i] = <<x, y>>[i]
  OBVIOUS
<1> QED
  BY <1>1, <1>2, <1>3, SeqEqual

LEMMA RepliesStep ==
    ASSUME TypeOK, Started, Replies, [Next]_vars
    PROVE  Replies'
<1> USE DEF TypeOK, Started, Replies, Shell, Client, world, opening, data
<1>1. CASE Add
  BY <1>1 DEF Add
<1>2. CASE SetHook
  BY <1>2 DEF SetHook
<1>3. CASE Opened
  <2>1. opener = "opening" /\ (kind = "socks" => toApp = <<"method">>) /\ kind' = kind
    BY <1>3 DEF Opened
  <2>2. CASE opener' = AfterAck /\ UNCHANGED <<inMap, endp, toApp>>
    BY <2>1, <2>2 DEF AfterAck
  <2>3. CASE inMap' = FALSE /\ ReplyTo("failure") /\ GiveUp
    <3>1. opener' = "gaveup"
      BY <2>3 DEF GiveUp
    <3>2. toApp' = (IF kind = "socks" THEN <<"method", "failure">> ELSE toApp)
      <4>1. toApp' = (IF kind = "socks" THEN Append(toApp, "failure") ELSE toApp)
        BY <2>3 DEF ReplyTo
      <4>2. CASE kind = "socks"
        <5>1. toApp' = Append(<<"method">>, "failure")
          BY <2>1, <4>1, <4>2
        <5> QED
          BY <4>2, <5>1, TwoReplies
      <4>3. CASE kind # "socks"
        BY <4>1, <4>3
      <4> QED
        BY <4>2, <4>3
    <3> QED
      BY <2>1, <3>1, <3>2
  <2> QED
    BY <1>3, <2>2, <2>3 DEF Opened
<1>4. CASE Reply
  <2>1. opener = "replying" /\ toApp = <<"method">> /\ kind' = kind /\ kind = "socks"
    BY <1>4 DEF Reply
  <2>2. CASE ReplyTo("success") /\ opener' = "start"
    <3>1. toApp' = <<"method", "success">>
      BY TwoReplies, <2>1, <2>2 DEF ReplyTo
    <3> QED
      BY <2>1, <2>2, <3>1
  <2>3. CASE GiveUp /\ UNCHANGED toApp
    BY <2>1, <2>3 DEF GiveUp
  <2> QED
    BY <1>4, <2>2, <2>3 DEF Reply
<1>5. CASE StartContext
  BY <1>5 DEF StartContext
<1>6. CASE OpenTerminal
  BY <1>6 DEF OpenTerminal
<1>7. CASE StartProcess
  BY <1>7 DEF StartProcess, GiveUp
<1>8. CASE Spawn
  BY <1>8 DEF Spawn
<1>9. CASE Read
  BY <1>9 DEF Read
<1>10. CASE ReadEnds
  BY <1>10 DEF ReadEnds, AtEnd
<1>11. CASE Publish
  BY <1>11 DEF Publish, HasWindow
<1>12. CASE PublishFails
  BY <1>12 DEF PublishFails, AtEnd, HasWindow
<1>13. CASE Take
  BY <1>13 DEF Take
<1>14. CASE DeliverFails
  BY <1>14 DEF DeliverFails, AtEnd
<1>15. CASE WriterStops
  BY <1>15 DEF WriterStops, AtEnd
<1>16. CASE Kill
  BY <1>16 DEF Kill
<1>17. CASE Reap
  BY <1>17 DEF Reap
<1>18. CASE AwaitReader
  BY <1>18 DEF AwaitReader, Drained
<1>19. CASE TellExit
  BY <1>19 DEF TellExit
<1>20. CASE CloseCancels
  BY <1>20 DEF CloseCancels, Cancel, Closing
<1>21. CASE CloseShuts
  BY <1>21 DEF CloseShuts
<1>22. CASE CloseTells
  BY <1>22 DEF CloseTells, CloseMessages
<1>23. CASE CloseHook
  BY <1>23 DEF CloseHook
<1>24. CASE CloseReturns
  BY <1>24 DEF CloseReturns
<1>25. CASE HandlerReturns
  BY <1>25 DEF HandlerReturns
<1>26. CASE Greeting
  BY <1>26 DEF Greeting, GiveUp, ReplyTo
<1>27. CASE Request
  <2>1. opener = "request" /\ toApp = <<"method">> /\ kind' = kind /\ kind = "socks"
    BY <1>27 DEF Request
  <2>2. CASE opener' = "add" /\ UNCHANGED <<toApp, endp>>
    BY <2>1, <2>2
  <2>3. CASE GiveUp /\ ReplyTo("failure")
    <3>1. opener' = "gaveup" /\ toApp' = <<"method", "failure">>
      BY TwoReplies, <2>1, <2>3 DEF GiveUp, ReplyTo
    <3> QED
      BY <2>1, <3>1
  <2>4. CASE GiveUp /\ UNCHANGED toApp
    BY <2>1, <2>4 DEF GiveUp
  <2> QED
    BY <1>27, <2>2, <2>3, <2>4 DEF Request
<1>28. CASE Dial
  BY <1>28 DEF Dial
<1>29. CASE Deliver
  BY <1>29 DEF Deliver, ReplyTo
<1>30. CASE HandlerCloses
  BY <1>30 DEF HandlerCloses
<1>31. CASE AppWrites
  BY <1>31 DEF AppWrites
<1>32. CASE AppEnds
  BY <1>32 DEF AppEnds
<1>33. CASE Arrive
  BY <1>33 DEF Arrive
<1>34. CASE Ack
  BY <1>34 DEF Ack
<1>35. CASE CommandEnds
  BY <1>35 DEF CommandEnds
<1>36. CASE LinkLost
  BY <1>36 DEF LinkLost
<1>37. CASE UNCHANGED vars
  BY <1>37 DEF vars
<1> QED
  BY <1>1, <1>2, <1>3, <1>4, <1>5, <1>6, <1>7, <1>8, <1>9, <1>10, <1>11,
     <1>12, <1>13, <1>14, <1>15, <1>16, <1>17, <1>18, <1>19, <1>20, <1>21,
     <1>22, <1>23, <1>24, <1>25, <1>26, <1>27, <1>28, <1>29, <1>30, <1>31,
     <1>32, <1>33, <1>34, <1>35, <1>36, <1>37
     DEF Next, Goroutines, Others

-----------------------------------------------------------------------------
LifeInv == TypeOK /\ Started /\ Counted /\ TailInv /\ Replies

LEMMA LifeInvInit == Init => LifeInv
<1> SUFFICES ASSUME Init PROVE LifeInv
  OBVIOUS
<1> USE DEF Init, Shell, Client
<1>k. kind \in {"dialled", "shell", "accepted", "socks"}
  OBVIOUS
<1>1. TypeOK
  <2>1. toApp \in Seq({"method", "nomethod", "failure", "success", "data"})
    OBVIOUS
  <2>2. inMap \in BOOLEAN /\ late \in BOOLEAN
    OBVIOUS
  <2>3. hooked \in BOOLEAN
    OBVIOUS
  <2>4. opener \in {"greeting", "dial", "add"}
    OBVIOUS
  <2>5. endp \in {"none", "open"} /\ app \in {"none", "on"}
    OBVIOUS
  <2> QED
    BY <2>1, <2>2, <2>3, <2>4, <2>5 DEF TypeOK
<1>2. Started
  BY <1>k DEF Started
<1>3. Counted
  BY DEF Counted
<1>4. TailInv
  BY DEF TailInv, Over
<1>5. Replies
  BY DEF Replies
<1> QED
  BY <1>1, <1>2, <1>3, <1>4, <1>5 DEF LifeInv

LEMMA LifeInvStep == LifeInv /\ [Next]_vars => LifeInv'
BY TypeStep, StartedStep, CountedStep, TailStep, RepliesStep DEF LifeInv

LEMMA LifeInvHolds == Spec => []LifeInv
BY LifeInvInit, LifeInvStep, PTL DEF Spec

(* The variables keep their types: no goroutine of a session and no step   *)
(* of its opener leaves the states it may be in, no more is acknowledged   *)
(* than was published, or published than was read.                         *)
THEOREM TypeCorrect == Spec => []TypeOK
<1>1. LifeInv => TypeOK
  BY DEF LifeInv
<1> QED
  BY <1>1, LifeInvHolds, PTL

(* While nothing interferes, the close message of a session follows all    *)
(* that its program wrote, whatever its other direction does.              *)
THEOREM TailComesBeforeClose == Spec => []TailBeforeClose
<1>1. LifeInv => TailBeforeClose
  <2> SUFFICES ASSUME LifeInv, told > 0, Undisturbed PROVE published = made
    BY DEF TailBeforeClose
  <2> USE DEF LifeInv
  <2>1. Calm
    BY DEF Undisturbed, Calm
  <2>2. Over
    BY DEF Counted, TypeOK, Over
  <2> QED
    BY <2>1, <2>2 DEF TailInv
<1> QED
  BY <1>1, LifeInvHolds, PTL

(* However many goroutines and handlers close a session, the other end is  *)
(* told at most once, and once when a session that was started has ended.  *)
THEOREM OtherEndToldOnce == Spec => []ToldOnce
<1>1. LifeInv => ToldOnce
  <2> SUFFICES ASSUME TypeOK, Started, Counted PROVE ToldOnce
    BY DEF LifeInv
  <2>1. told <= 1
    BY DEF Counted
  <2>2. opener = "ran" /\ once = "done" /\ Idle(waiter) => told = 1
    BY DEF Started, Counted, Idle, TypeOK
  <2> QED
    BY <2>1, <2>2 DEF ToldOnce
<1> QED
  BY <1>1, LifeInvHolds, PTL

(* A SOCKS client reads one final reply, the success before any data of    *)
(* the tunnel, and nothing after a failure.                                *)
THEOREM OneFinalReply == Spec => []ReplyFirst
<1>1. LifeInv => ReplyFirst
  <2> SUFFICES ASSUME LifeInv, NEW i \in DOMAIN toApp, NEW j \in DOMAIN toApp, i < j
               PROVE  /\ toApp[i] \in {"method", "success", "data"}
                      /\ toApp[j] # "method"
                      /\ toApp[i] = "success" => toApp[j] = "data"
                      /\ toApp[i] = "data" => toApp[j] = "data"
                      /\ toApp[j] = "data" => toApp[2] = "success"
    BY DEF ReplyFirst
  <2>1. DOMAIN toApp = 1..Len(toApp) /\ Len(toApp) \in Nat
    BY LenProperties DEF LifeInv, TypeOK
  <2>2. i \in 1..Len(toApp) /\ j \in 1..Len(toApp) /\ Len(toApp) >= 2
    BY <2>1
  <2>3. CASE kind = "socks" /\ opener \in {"start", "spawn", "ran"}
    <3>1. /\ toApp[1] = "method" /\ toApp[2] = "success"
          /\ \A k \in 3..Len(toApp) : toApp[k] = "data"
      BY <2>3 DEF LifeInv, Replies
    <3>2. i = 1 \/ i = 2 \/ i \in 3..Len(toApp)
      BY <2>1, <2>2
    <3>3. j = 2 \/ j \in 3..Len(toApp)
      BY <2>1, <2>2
    <3>4. i # 1 => j \in 3..Len(toApp)
      BY <2>1, <2>2
    <3> QED
      BY <3>1, <3>2, <3>3, <3>4
  <2>4. CASE kind = "socks" /\ opener = "gaveup"
    <3>1. toApp = <<"method", "failure">>
      BY <2>2, <2>4 DEF LifeInv, Replies
    <3>2. i = 1 /\ j = 2
      BY <2>2, <3>1
    <3> QED
      BY <3>1, <3>2
  <2>5. ~(kind = "socks" /\ opener \in {"greeting", "request", "add", "opening", "replying"})
    BY <2>2 DEF LifeInv, Replies
  <2>6. kind = "socks"
    BY <2>2 DEF LifeInv, Replies
  <2>7. opener \notin {"dial", "hook", "terminal", "process", "refused"}
    BY <2>6 DEF LifeInv, Started, Shell, Client
  <2> QED
    BY <2>3, <2>4, <2>5, <2>6, <2>7 DEF LifeInv, TypeOK
<1> QED
  BY <1>1, LifeInvHolds, PTL


-----------------------------------------------------------------------------
(* What the end of a session rests on, proved as an invariant.             *)

(* Once Close has run, whoever called it and whenever: of a started        *)
(* session the context has ended and the endpoint is closed, which is what *)
(* the reader, the writer and the shell wait for, unless Start came after  *)
(* Close had begun; of a TCP session the connection is closed in any case. *)
(* A session its opener gave up has left the map, its endpoint is closed   *)
(* and no shell runs.                                                      *)
Released ==
    /\ once = "done" /\ opener = "ran" /\ ~late => ctx = "ended" /\ endp = "closed"
    /\ once = "done" /\ ~Shell => endp # "open"
    /\ opener = "gaveup" => ~inMap /\ endp # "open" /\ (Shell => app # "on")

(* Nobody closes a session that was not added yet; there is a context from *)
(* Start on, and an endpoint from the dial or the terminal on; Close ends  *)
(* the context it finds and closes the endpoint it finds, and only a       *)
(* terminal may be opened later, by a Start that closes it again when the  *)
(* context has ended.                                                      *)
ReleaseInv ==
    /\ opener \in {"greeting", "request", "dial", "add", "refused"} =>
          ~inMap /\ handler = "idle" /\ once = "no"
    /\ opener \in {"terminal", "process", "spawn", "ran"} => ctx # "none"
    /\ opener = "dial" \/ (Shell /\ opener \notin {"process", "spawn", "ran", "gaveup"}) =>
          endp = "none"
    /\ Shell => (opener \in {"process", "spawn", "ran"} => endp # "none")
    /\ ~Shell /\ opener \notin {"dial", "gaveup"} => endp # "none"
    /\ once # "no" /\ ~late => ctx # "live"
    /\ once \in {"shut", "told", "done"} /\ (~Shell \/ (~late /\ opener # "process")) =>
          endp # "open"
    /\ opener = "gaveup" => ~inMap /\ endp # "open"

LEMMA ReleaseStep ==
    ASSUME TypeOK, Started, ReleaseInv, [Next]_vars
    PROVE  ReleaseInv'
<1> USE DEF TypeOK, Started, ReleaseInv, Shell, Client, world, opening, data
<1>1. CASE Add
  BY <1>1 DEF Add
<1>2. CASE SetHook
  BY <1>2 DEF SetHook
<1>3. CASE Opened
  <2>1. opener = "opening" /\ UNCHANGED <<kind, ctx, once, late, handler, app>>
    BY <1>3 DEF Opened
  <2>2. CASE opener' \in {"replying", "start"} /\ UNCHANGED <<inMap, endp>>
    BY <2>1, <2>2
  <2>3. CASE inMap' = FALSE /\ GiveUp
    BY <2>1, <2>3 DEF GiveUp
  <2> QED
    BY <1>3, <2>2, <2>3 DEF Opened, AfterAck
<1>4. CASE Reply
  BY <1>4 DEF Reply, GiveUp
<1>5. CASE StartContext
  BY <1>5 DEF StartContext
<1>6. CASE OpenTerminal
  <2>1. opener = "terminal" /\ UNCHANGED <<kind, ctx, once, late, handler, app>>
    BY <1>6 DEF OpenTerminal
  <2>2. CASE endp' = "open" /\ opener' = "process" /\ UNCHANGED inMap
    BY <2>1, <2>2
  <2>3. CASE inMap' = FALSE /\ opener' = "gaveup" /\ UNCHANGED endp
    BY <2>1, <2>3
  <2> QED
    BY <1>6, <2>2, <2>3 DEF OpenTerminal
<1>7. CASE StartProcess
  BY <1>7 DEF StartProcess, GiveUp
<1>8. CASE Spawn
  BY <1>8 DEF Spawn
<1>9. CASE Read
  BY <1>9 DEF Read
<1>10. CASE ReadEnds
  BY <1>10 DEF ReadEnds, AtEnd
<1>11. CASE Publish
  BY <1>11 DEF Publish
<1>12. CASE PublishFails
  BY <1>12 DEF PublishFails, AtEnd
<1>13. CASE Take
  BY <1>13 DEF Take
<1>14. CASE DeliverFails
  BY <1>14 DEF DeliverFails, AtEnd
<1>15. CASE WriterStops
  BY <1>15 DEF WriterStops, AtEnd
<1>16. CASE Kill
  BY <1>16 DEF Kill
<1>17. CASE Reap
  BY <1>17 DEF Reap
<1>18. CASE AwaitReader
  BY <1>18 DEF AwaitReader
<1>19. CASE TellExit
  BY <1>19 DEF TellExit
<1>20. CASE CloseCancels
  BY <1>20 DEF CloseCancels, Cancel, Closing
<1>21. CASE CloseShuts
  BY <1>21 DEF CloseShuts
<1>22. CASE CloseTells
  BY <1>22 DEF CloseTells
<1>23. CASE CloseHook
  <2>1. once = "told" /\ once' = "done" /\ UNCHANGED <<kind, opener, ctx, late, endp, app, handler>>
    BY <1>23 DEF CloseHook
  <2>2. ~inMap => ~inMap'
    BY <1>23, Zenon DEF CloseHook
  <2>3. /\ opener' \notin {"greeting", "request", "dial", "add", "refused"}
        /\ opener' = "gaveup" => ~inMap'
    BY <2>1, <2>2
  <2>4. /\ opener' \in {"terminal", "process", "spawn", "ran"} => ctx' # "none"
        /\ opener' = "dial" \/ (Shell' /\ opener' \notin {"process", "spawn", "ran", "gaveup"}) =>
              endp' = "none"
        /\ Shell' => (opener' \in {"process", "spawn", "ran"} => endp' # "none")
        /\ ~Shell' /\ opener' \notin {"dial", "gaveup"} => endp' # "none"
        /\ once' # "no" /\ ~late' => ctx' # "live"
        /\ once' \in {"shut", "told", "done"} /\ (~Shell' \/ (~late' /\ opener' # "process")) =>
              endp' # "open"
        /\ opener' = "gaveup" => endp' # "open"
    BY <2>1
  <2> QED
    BY <2>3, <2>4
<1>24. CASE CloseReturns
  BY <1>24 DEF CloseReturns
<1>25. CASE HandlerReturns
  BY <1>25 DEF HandlerReturns
<1>26. CASE Greeting
  BY <1>26 DEF Greeting, GiveUp
<1>27. CASE Request
  BY <1>27 DEF Request, GiveUp
<1>28. CASE Dial
  BY <1>28 DEF Dial
<1>29. CASE Deliver
  BY <1>29 DEF Deliver
<1>30. CASE HandlerCloses
  BY <1>30 DEF HandlerCloses
<1>31. CASE AppWrites
  BY <1>31 DEF AppWrites
<1>32. CASE AppEnds
  BY <1>32 DEF AppEnds
<1>33. CASE Arrive
  BY <1>33 DEF Arrive
<1>34. CASE Ack
  BY <1>34 DEF Ack
<1>35. CASE CommandEnds
  BY <1>35 DEF CommandEnds
<1>36. CASE LinkLost
  BY <1>36 DEF LinkLost
<1>37. CASE UNCHANGED vars
  BY <1>37 DEF vars
<1> QED
  BY <1>1, <1>2, <1>3, <1>4, <1>5, <1>6, <1>7, <1>8, <1>9, <1>10, <1>11,
     <1>12, <1>13, <1>14, <1>15, <1>16, <1>17, <1>18, <1>19, <1>20, <1>21,
     <1>22, <1>23, <1>24, <1>25, <1>26, <1>27, <1>28, <1>29, <1>30, <1>31,
     <1>32, <1>33, <1>34, <1>35, <1>36, <1>37
     DEF Next, Goroutines, Others

(* Close releases what the session holds, whenever and by whomever it is   *)
(* called, also in the middle of Start; the exception is a Start that      *)
(* comes after Close had begun: the part of EverythingEnds that does not   *)
(* depend on the scheduler, with its one exception made precise.           *)
THEOREM CloseReleases == Spec => []Released
<1>1. Init => ReleaseInv
  BY DEF Init, ReleaseInv, Shell, Client
<1>2. LifeInv /\ ReleaseInv /\ [Next]_vars => ReleaseInv'
  BY ReleaseStep DEF LifeInv
<1>3. LifeInv /\ ReleaseInv => Released
  <2> SUFFICES ASSUME LifeInv, ReleaseInv PROVE Released
    OBVIOUS
  <2> QED
    BY DEF LifeInv, TypeOK, Started, ReleaseInv, Released
<1> QED
  BY <1>1, <1>2, <1>3, LifeInvHolds, PTL DEF Spec

=============================================================================
