--------------------------- MODULE DispatchProofs ---------------------------
(***************************************************************************)
(* Proofs about Dispatch, for any set of routes and any number of          *)
(* middlewares, dependencies and exception handlers.                       *)
(***************************************************************************)
EXTENDS Dispatch, TLAPS

\* The configured exception handlers are a sequence.
LEMMA HandlersAreSequence ==
    ASSUME app \in Snapshots
    PROVE  /\ app.exception_handlers \in Seq(ExceptionHandler)
           /\ Len(app.exception_handlers) \in Nat
           /\ DOMAIN app.exception_handlers = 1 .. Len(app.exception_handlers)
<1>1. PICK n \in 0 .. MaxHandlers : app.exception_handlers \in [1 .. n -> ExceptionHandler]
  BY DEF Snapshots
<1>2. n \in Nat
  BY HandlersAssumption
<1>3. app.exception_handlers \in Seq(ExceptionHandler)
  BY <1>1, <1>2
<1>. QED
  BY <1>3

\* The history records calls of user code and responses.
LEMMA CallTyped ==
    ASSUME NEW what \in UserCode, NEW n \in Nat
    PROVE  Call(what, n) \in Calls
BY DEF Call, Calls

LEMMA ResponseTyped ==
    ASSUME NEW by \in {"framework", "user"}, NEW status \in Statuses
    PROVE  Response(by, status) \in Responses
BY DEF Response, Responses

\* A reply ends the request with well-typed values.
LEMMA ReplyTyped ==
    ASSUME TypeOK, NEW status \in Statuses, Reply(status), UNCHANGED chosen
    PROVE  TypeOK'
<1>1. Response("framework", status) \in Responses
  BY ResponseTyped
<1>2. sent' \in Seq(Responses)
  BY <1>1 DEF TypeOK, Reply
<1>. QED
  BY <1>2 DEF TypeOK, Reply, Goto, Finish, Stages, chosen

\* So does a gate that is passed.
LEMMA PassTyped ==
    ASSUME TypeOK, pc # "done", NEW gates \in SUBSET {"limit", "size", "jwt"},
           NEW stage \in {"length", "jwt", "body", "form", "context", "dependencies"},
           Pass(gates, stage), UNCHANGED chosen
    PROVE  TypeOK'
<1>1. passed' \subseteq {"limit", "size", "jwt"}
  BY DEF TypeOK, Pass
<1>. QED
  BY <1>1 DEF TypeOK, Pass, Goto, Stages, chosen

\* TypeOK holds initially and every step keeps it.
THEOREM TypeCorrect == Spec => []TypeOK
<1>1. Init => TypeOK
  BY DEF Init, TypeOK, Stages
<1>2. ASSUME TypeOK, [Next]_vars
      PROVE  TypeOK'
  <2>. /\ app \in Snapshots
       /\ Len(app.exception_handlers) \in Nat
    BY <1>2, HandlersAreSequence DEF TypeOK
  <2>1. CASE IgnoreNonHttp
    BY <2>1, <1>2 DEF IgnoreNonHttp, TypeOK, Stages, chosen, Goto, Finish, Errors
  <2>2. CASE AnswerPreflight
    BY <2>2, <1>2, ReplyTyped DEF AnswerPreflight, Statuses
  <2>3. CASE DeferForMiddleware
    BY <2>3, <1>2 DEF DeferForMiddleware, Defer, TypeOK, Stages, chosen, Goto,
       Finish, Errors
  <2>4. CASE AnswerOpenapi
    BY <2>4, <1>2, ReplyTyped DEF AnswerOpenapi, Statuses
  <2>5. CASE AnswerUnmatched
    <3>1. CASE Finish("raised") /\ UNCHANGED <<mode, passed, mapped, err, ran, sent, chosen>>
      BY <2>5, <3>1, <1>2 DEF AnswerUnmatched, TypeOK, Stages, chosen, Goto, Finish,
         Errors
    <3>. QED
      BY <2>5, <3>1, <1>2, ReplyTyped DEF AnswerUnmatched, chosen, Statuses
  <2>6. CASE DeferRoute
    BY <2>6, <1>2 DEF DeferRoute, SyncStart, Defer, TypeOK, Stages, chosen, Goto,
       Finish, Errors
  <2>7. CASE StartTrivialRoute
    BY <2>7, <1>2 DEF StartTrivialRoute, SyncStart, TypeOK, Stages, chosen, Goto,
       Finish, Errors
  <2>8. CASE EnterMiddleware
    BY <2>8, <1>2 DEF EnterMiddleware, TypeOK, Stages, chosen, Goto, Finish, Errors
  <2>9. CASE RequestMiddleware
    <3>1. ran' \in Seq(Calls)
      BY <2>9, <1>2, CallTyped DEF RequestMiddleware, TypeOK, UserCode
    <3>2. sent' \in Seq(Responses)
      <4>1. sent' = sent \/ sent' = Append(sent, Response("user", "middleware"))
        BY <2>9 DEF RequestMiddleware
      <4>. QED
        BY <4>1, <1>2, ResponseTyped DEF TypeOK, Statuses
    <3>. QED
      BY <2>9, <1>2, <3>1, <3>2 DEF RequestMiddleware, Fail, TypeOK, Stages, chosen,
         Goto, Finish, Errors
  <2>10. CASE LeaveMiddleware
    BY <2>10, <1>2 DEF LeaveMiddleware, TypeOK, Stages, chosen, Goto, Finish, Errors
  <2>11. CASE MatchRoute
    BY <2>11, <1>2 DEF MatchRoute, TypeOK, Stages, chosen, Goto, Finish, Errors
  <2>12. CASE RateLimit
    BY <2>12, <1>2, PassTyped, ReplyTyped DEF RateLimit, Statuses
  <2>13. CASE DeclaredLength
    BY <2>13, <1>2, PassTyped, ReplyTyped DEF DeclaredLength, Statuses
  <2>14. CASE ReadBody
    <3>1. CASE Finish("raised") /\ UNCHANGED <<mode, passed, mapped, err, ran, sent, chosen>>
      BY <2>14, <3>1, <1>2 DEF ReadBody, TypeOK, Stages, chosen, Goto, Finish,
         Errors
    <3>. QED
      BY <2>14, <3>1, <1>2, PassTyped, ReplyTyped DEF ReadBody, chosen, Statuses
  <2>15. CASE Jwt
    BY <2>15, <1>2, PassTyped, ReplyTyped DEF Jwt, Statuses
  <2>16. CASE Form
    <3>1. CASE Fail("other") /\ UNCHANGED <<mode, passed, mapped, ran, sent, chosen>>
      BY <2>16, <3>1, <1>2 DEF Form, Fail, TypeOK, Stages, chosen, Goto, Finish,
         Errors
    <3>. QED
      BY <2>16, <3>1, <1>2, PassTyped, ReplyTyped DEF Form, chosen, Statuses
  <2>17. CASE RequestContext
    <3>1. CASE Fail("other") /\ UNCHANGED <<mode, passed, mapped, ran, sent, chosen>>
      BY <2>17, <3>1, <1>2 DEF RequestContext, Fail, TypeOK, Stages, chosen, Goto,
         Finish, Errors
    <3>. QED
      BY <2>17, <3>1, <1>2, PassTyped DEF RequestContext, chosen, Statuses
  <2>18. CASE Dependency
    <3>1. ran' \in Seq(Calls)
      BY <2>18, <1>2, CallTyped DEF Dependency, TypeOK, UserCode
    <3>. QED
      BY <2>18, <1>2, <3>1 DEF Dependency, Fail, TypeOK, Stages, chosen, Goto,
         Finish, Errors
  <2>19. CASE LeaveDependencies
    BY <2>19, <1>2 DEF LeaveDependencies, TypeOK, Stages, chosen, Goto, Finish,
       Errors
  <2>20. CASE RejectJson
    BY <2>20, <1>2, ReplyTyped DEF RejectJson, Statuses
  <2>21. CASE CallHandler
    <3>1. ran' \in Seq(Calls)
      BY <2>21, <1>2, CallTyped DEF CallHandler, TypeOK, UserCode
    <3>2. sent' \in Seq(Responses)
      <4>1. sent' = sent \/ sent' = Append(sent, Response("user", "file"))
        BY <2>21 DEF CallHandler
      <4>. QED
        BY <4>1, <1>2, ResponseTyped DEF TypeOK, Statuses
    <3>. QED
      BY <2>21, <1>2, <3>1, <3>2 DEF CallHandler, Fail, TypeOK, Stages, chosen,
         Goto, Finish, Errors
  <2>22. CASE StartStream
    <3>1. sent' \in Seq(Responses)
      BY <2>22, <1>2, ResponseTyped DEF StartStream, TypeOK, Statuses
    <3>. QED
      BY <2>22, <1>2, <3>1 DEF StartStream, TypeOK, Stages, chosen, Goto, Finish,
         Errors
  <2>23. CASE AwaitHandler
    BY <2>23, <1>2 DEF AwaitHandler, Fail, TypeOK, Stages, chosen, Goto, Finish,
       Errors
  <2>24. CASE MapReturn
    BY <2>24, <1>2 DEF MapReturn, Fail, TypeOK, Stages, chosen, Goto, Finish, Errors
  <2>25. CASE ResponseMiddleware
    <3>1. ran' \in Seq(Calls)
      BY <2>25, <1>2, CallTyped DEF ResponseMiddleware, TypeOK, UserCode
    <3>. QED
      BY <2>25, <1>2, <3>1 DEF ResponseMiddleware, Fail, TypeOK, Stages, chosen,
         Goto, Finish, Errors
  <2>26. CASE LeaveFilter
    BY <2>26, <1>2 DEF LeaveFilter, TypeOK, Stages, chosen, Goto, Finish, Errors
  <2>27. CASE MergeHeaders
    BY <2>27, <1>2 DEF MergeHeaders, Fail, TypeOK, Stages, chosen, Goto, Finish,
       Errors
  <2>28. CASE SendMapped
    <3>1. sent' \in Seq(Responses)
      BY <2>28, <1>2, ResponseTyped DEF SendMapped, TypeOK, Statuses
    <3>. QED
      BY <2>28, <1>2, <3>1 DEF SendMapped, Fail, TypeOK, Stages, chosen, Goto,
         Finish, Errors
  <2>29. CASE TryExceptionHandler
    <3>1. ran' \in Seq(Calls)
      BY <2>29, <1>2, CallTyped DEF TryExceptionHandler, TypeOK, UserCode
    <3>. QED
      BY <2>29, <1>2, <3>1 DEF TryExceptionHandler, TypeOK, Stages, chosen, Goto,
         Finish, Errors
  <2>30. CASE NoExceptionHandler
    BY <2>30, <1>2 DEF NoExceptionHandler, TypeOK, Stages, chosen, Goto, Finish,
       Errors
  <2>31. CASE AwaitExceptionHandler
    <3>1. CASE Reply("500")
      BY <2>31, <3>1, <1>2, ReplyTyped DEF AwaitExceptionHandler, Statuses
    <3>2. CASE Goto("error_map", i) /\ UNCHANGED <<mode, passed, mapped, err, ran, sent, outcome>>
      BY <2>31, <3>2, <1>2 DEF AwaitExceptionHandler, TypeOK, Stages, chosen, Goto,
         Finish, Errors
    <3>. QED
      BY <2>31, <3>1, <3>2 DEF AwaitExceptionHandler
  <2>32. CASE SendHandled
    <3>1. sent' \in Seq(Responses)
      BY <2>32, <1>2, ResponseTyped DEF SendHandled, TypeOK, Statuses
    <3>. QED
      BY <2>32, <1>2, <3>1 DEF SendHandled, TypeOK, Stages, chosen, Goto, Finish,
         Errors
  <2>33. CASE SendDefault
    BY <2>33, <1>2, ReplyTyped DEF SendDefault, Statuses
  <2>34. CASE UNCHANGED vars
    BY <2>34, <1>2 DEF vars, TypeOK
  <2>. QED
    BY <1>2, <2>1, <2>2, <2>3, <2>4, <2>5, <2>6, <2>7, <2>8, <2>9, <2>10, <2>11,
       <2>12, <2>13, <2>14, <2>15, <2>16, <2>17, <2>18, <2>19, <2>20, <2>21, <2>22,
       <2>23, <2>24, <2>25, <2>26, <2>27, <2>28, <2>29, <2>30, <2>31, <2>32, <2>33,
       <2>34 DEF Next
<1>. QED
  BY <1>1, <1>2, PTL DEF Spec

-----------------------------------------------------------------------------
(* Appending to the history.                                               *)

LEMMA AppendShape ==
    ASSUME NEW S, NEW s \in Seq(S), NEW e \in S
    PROVE  /\ Len(s) \in Nat
           /\ DOMAIN s = 1 .. Len(s)
           /\ Append(s, e) \in Seq(S)
           /\ Len(Append(s, e)) = Len(s) + 1
           /\ DOMAIN Append(s, e) = 1 .. (Len(s) + 1)
           /\ \A k \in 1 .. Len(s) : Append(s, e)[k] = s[k]
           /\ Append(s, e)[Len(s) + 1] = e
OBVIOUS

\* A call of user code other than a dependency or the handler disturbs neither the gates
\* nor the order.
LEMMA OtherCallsGuarded ==
    ASSUME TypeOK, UserCodeGuarded, UNCHANGED <<route, passed>>,
           NEW c \in Calls, c.what \notin {"dependency", "handler"}, ran' = Append(ran, c)
    PROVE  UserCodeGuarded'
<1>1. /\ Len(ran) \in Nat /\ DOMAIN ran = 1 .. Len(ran)
      /\ DOMAIN ran' = 1 .. (Len(ran) + 1)
      /\ \A k \in 1 .. Len(ran) : ran'[k] = ran[k]
      /\ ran'[Len(ran) + 1] = c
  BY AppendShape DEF TypeOK
<1>. QED
  BY <1>1 DEF UserCodeGuarded, Required

LEMMA OtherCallsOrdered ==
    ASSUME TypeOK, PipelineOrder, UNCHANGED <<app, route>>,
           NEW c \in Calls, c.what # "handler", ran' = Append(ran, c)
    PROVE  PipelineOrder'
<1>1. /\ Len(ran) \in Nat /\ DOMAIN ran = 1 .. Len(ran)
      /\ DOMAIN ran' = 1 .. (Len(ran) + 1)
      /\ \A k \in 1 .. Len(ran) : ran'[k] = ran[k]
      /\ ran'[Len(ran) + 1] = c
  BY AppendShape DEF TypeOK
<1>2. ASSUME NEW k \in DOMAIN ran', ran'[k].what = "handler"
      PROVE  /\ k = app.request_middleware + route.dependencies + 1
             /\ \A j \in 1 .. (k - 1) : ran'[j] = Scheduled(j)
  <2>1. k \in 1 .. Len(ran) /\ ran[k].what = "handler"
    BY <1>1, <1>2
  <2>2. \A j \in 1 .. (k - 1) : j \in 1 .. Len(ran)
    BY <1>1, <2>1
  <2>. QED
    BY <1>1, <2>1, <2>2 DEF PipelineOrder
<1>. QED
  BY <1>2 DEF PipelineOrder, Scheduled

-----------------------------------------------------------------------------
(* The gates.                                                              *)

\* Behind each gate its mark is in passed, so in front of the dependencies all are; the
\* synchronous path reaches the handler only on a route that requires none.
GateInv ==
    /\ pc \in {"length", "body", "jwt", "form", "context"} =>
          (route.rate_limited => "limit" \in passed)
    /\ pc \in {"jwt", "form", "context"} => (route.body # "unread" => "size" \in passed)
    /\ pc \in {"form", "context"} => (route.require_jwt => "jwt" \in passed)
    /\ pc \in {"dependencies", "call", "await"} => Required \subseteq passed
    /\ UserCodeGuarded

\* No dependency and no handler runs before the gates of its route are passed.
THEOREM GuardsHold == Spec => []UserCodeGuarded
<1>1. Init => GateInv
  BY DEF Init, GateInv, UserCodeGuarded
<1>2. ASSUME TypeOK, GateInv, [Next]_vars
      PROVE  GateInv'
  <2>1. CASE IgnoreNonHttp
    BY <2>1, <1>2 DEF IgnoreNonHttp, TypeOK, GateInv, UserCodeGuarded, Required,
       Goto, Finish, chosen, Call, Calls
  <2>2. CASE AnswerPreflight
    BY <2>2, <1>2 DEF AnswerPreflight, Reply, TypeOK, GateInv, UserCodeGuarded,
       Required, Goto, Finish, chosen, Call, Calls
  <2>3. CASE DeferForMiddleware
    BY <2>3, <1>2 DEF DeferForMiddleware, Defer, PlainTarget, TypeOK, GateInv,
       UserCodeGuarded, Required, Goto, Finish, chosen, Call, Calls
  <2>4. CASE AnswerOpenapi
    BY <2>4, <1>2 DEF AnswerOpenapi, Reply, SyncStart, TypeOK, GateInv,
       UserCodeGuarded, Required, Goto, Finish, chosen, Call, Calls
  <2>5. CASE AnswerUnmatched
    BY <2>5, <1>2 DEF AnswerUnmatched, Reply, SyncStart, TypeOK, GateInv,
       UserCodeGuarded, Required, Goto, Finish, chosen, Call, Calls
  <2>6. CASE DeferRoute
    BY <2>6, <1>2 DEF DeferRoute, SyncStart, Defer, TypeOK, GateInv,
       UserCodeGuarded, Required, Goto, Finish, chosen, Call, Calls
  <2>7. CASE StartTrivialRoute
    BY <2>7, <1>2 DEF StartTrivialRoute, SyncStart, TrivialSync, HasMiddleware,
       TypeOK, GateInv, UserCodeGuarded, Required, Goto, Finish, chosen, Call, Calls
  <2>8. CASE EnterMiddleware
    BY <2>8, <1>2 DEF EnterMiddleware, TypeOK, GateInv, UserCodeGuarded, Required,
       Goto, Finish, chosen, Call, Calls
  <2>9. CASE RequestMiddleware
    BY <2>9, <1>2 DEF RequestMiddleware, Fail, TypeOK, GateInv, UserCodeGuarded,
       Required, Goto, Finish, chosen, Call, Calls
  <2>10. CASE LeaveMiddleware
    BY <2>10, <1>2 DEF LeaveMiddleware, TypeOK, GateInv, UserCodeGuarded, Required,
       Goto, Finish, chosen, Call, Calls
  <2>11. CASE MatchRoute
    BY <2>11, <1>2 DEF MatchRoute, TypeOK, GateInv, UserCodeGuarded, Required, Goto,
       Finish, chosen, Call, Calls
  <2>12. CASE RateLimit
    BY <2>12, <1>2 DEF RateLimit, Pass, Reply, TypeOK, GateInv, UserCodeGuarded,
       Required, Goto, Finish, chosen, Call, Calls
  <2>13. CASE DeclaredLength
    BY <2>13, <1>2 DEF DeclaredLength, Pass, Reply, TypeOK, GateInv,
       UserCodeGuarded, Required, Goto, Finish, chosen, Call, Calls
  <2>14. CASE ReadBody
    BY <2>14, <1>2 DEF ReadBody, Pass, Reply, TypeOK, GateInv, UserCodeGuarded,
       Required, Goto, Finish, chosen, Call, Calls
  <2>15. CASE Jwt
    BY <2>15, <1>2 DEF Jwt, Pass, Reply, TypeOK, GateInv, UserCodeGuarded, Required,
       Goto, Finish, chosen, Call, Calls
  <2>16. CASE Form
    BY <2>16, <1>2 DEF Form, Pass, Reply, Fail, TypeOK, GateInv, UserCodeGuarded,
       Required, Goto, Finish, chosen, Call, Calls
  <2>17. CASE RequestContext
    BY <2>17, <1>2 DEF RequestContext, Pass, Fail, TypeOK, GateInv, UserCodeGuarded,
       Required, Goto, Finish, chosen, Call, Calls
  <2>18. CASE Dependency
    BY <2>18, <1>2 DEF Dependency, Fail, TypeOK, GateInv, UserCodeGuarded, Required,
       Goto, Finish, chosen, Call, Calls
  <2>19. CASE LeaveDependencies
    BY <2>19, <1>2 DEF LeaveDependencies, TypeOK, GateInv, UserCodeGuarded,
       Required, Goto, Finish, chosen, Call, Calls
  <2>20. CASE RejectJson
    BY <2>20, <1>2 DEF RejectJson, Reply, TypeOK, GateInv, UserCodeGuarded,
       Required, Goto, Finish, chosen, Call, Calls
  <2>21. CASE CallHandler
    BY <2>21, <1>2 DEF CallHandler, Fail, TypeOK, GateInv, UserCodeGuarded,
       Required, Goto, Finish, chosen, Call, Calls
  <2>22. CASE StartStream
    BY <2>22, <1>2 DEF StartStream, TypeOK, GateInv, UserCodeGuarded, Required,
       Goto, Finish, chosen, Call, Calls
  <2>23. CASE AwaitHandler
    BY <2>23, <1>2 DEF AwaitHandler, Fail, TypeOK, GateInv, UserCodeGuarded,
       Required, Goto, Finish, chosen, Call, Calls
  <2>24. CASE MapReturn
    BY <2>24, <1>2 DEF MapReturn, Fail, TypeOK, GateInv, UserCodeGuarded, Required,
       Goto, Finish, chosen, Call, Calls
  <2>25. CASE ResponseMiddleware
    BY <2>25, <1>2 DEF ResponseMiddleware, Fail, TypeOK, GateInv, UserCodeGuarded,
       Required, Goto, Finish, chosen, Call, Calls
  <2>26. CASE LeaveFilter
    BY <2>26, <1>2 DEF LeaveFilter, TypeOK, GateInv, UserCodeGuarded, Required,
       Goto, Finish, chosen, Call, Calls
  <2>27. CASE MergeHeaders
    BY <2>27, <1>2 DEF MergeHeaders, Fail, TypeOK, GateInv, UserCodeGuarded,
       Required, Goto, Finish, chosen, Call, Calls
  <2>28. CASE SendMapped
    BY <2>28, <1>2 DEF SendMapped, Fail, TypeOK, GateInv, UserCodeGuarded, Required,
       Goto, Finish, chosen, Call, Calls
  <2>29. CASE TryExceptionHandler
    <3>1. pc' \in {"error", "error_await", "error_map"} /\ UNCHANGED <<app, route, passed>>
      BY <2>29 DEF TryExceptionHandler, Goto, chosen
    <3>2. CASE UNCHANGED ran
      BY <3>1, <3>2, <1>2 DEF GateInv, UserCodeGuarded, Required
    <3>3. CASE ran' = Append(ran, Call("exception_handler", i))
      <4>1. Call("exception_handler", i) \in Calls
        BY <1>2, CallTyped DEF TypeOK, UserCode
      <4>2. UserCodeGuarded'
        BY <1>2, <3>1, <3>3, <4>1, OtherCallsGuarded DEF GateInv, Call
      <4>. QED
        BY <3>1, <4>2 DEF GateInv
    <3>. QED
      BY <2>29, <3>2, <3>3 DEF TryExceptionHandler
  <2>30. CASE NoExceptionHandler
    BY <2>30, <1>2 DEF NoExceptionHandler, TypeOK, GateInv, UserCodeGuarded,
       Required, Goto, Finish, chosen, Call, Calls
  <2>31. CASE AwaitExceptionHandler
    BY <2>31, <1>2 DEF AwaitExceptionHandler, Reply, TypeOK, GateInv,
       UserCodeGuarded, Required, Goto, Finish, chosen, Call, Calls
  <2>32. CASE SendHandled
    BY <2>32, <1>2 DEF SendHandled, TypeOK, GateInv, UserCodeGuarded, Required,
       Goto, Finish, chosen, Call, Calls
  <2>33. CASE SendDefault
    BY <2>33, <1>2 DEF SendDefault, Reply, TypeOK, GateInv, UserCodeGuarded,
       Required, Goto, Finish, chosen, Call, Calls
  <2>34. CASE UNCHANGED vars
    BY <2>34, <1>2 DEF vars, TypeOK, GateInv, UserCodeGuarded, Required, Goto,
       Finish, chosen, Call, Calls
  <2>. QED
    BY <1>2, <2>1, <2>2, <2>3, <2>4, <2>5, <2>6, <2>7, <2>8, <2>9, <2>10, <2>11,
       <2>12, <2>13, <2>14, <2>15, <2>16, <2>17, <2>18, <2>19, <2>20, <2>21, <2>22,
       <2>23, <2>24, <2>25, <2>26, <2>27, <2>28, <2>29, <2>30, <2>31, <2>32, <2>33,
       <2>34 DEF Next
<1>3. GateInv => UserCodeGuarded
  BY DEF GateInv
<1>. QED
  BY <1>1, <1>2, <1>3, TypeCorrect, PTL DEF Spec

-----------------------------------------------------------------------------
(* The order of user code.                                                 *)

\* How many calls have been made when a stage in front of the handler is reached.
CallsBefore ==
    CASE pc \in {"start", "openapi"} -> 0
      [] pc = "middleware" -> i - 1
      [] pc = "dependencies" -> app.request_middleware + i - 1
      [] pc = "call" -> app.request_middleware + route.dependencies
      [] OTHER -> app.request_middleware

Early == {"start", "openapi", "middleware", "match", "limit", "length", "body", "jwt",
          "form", "context", "dependencies", "call"}

\* In front of the handler the calls made are exactly the scheduled ones.
OrderInv ==
    /\ pc \in Early => /\ Len(ran) = CallsBefore
                       /\ \A j \in 1 .. Len(ran) : ran[j] = Scheduled(j)
    /\ pc = "middleware" => i \in 1 .. (app.request_middleware + 1)
    /\ pc = "dependencies" => i \in 1 .. (route.dependencies + 1)
    /\ PipelineOrder

LEMMA CountsAreNatural ==
    ASSUME TypeOK
    PROVE  app.request_middleware \in Nat /\ route.dependencies \in Nat
BY RoutesAssumption, MiddlewareAssumption DEF TypeOK, Snapshots, RouteEntry

\* The handler runs after every request middleware and every dependency, in order.
THEOREM OrderHolds == Spec => []PipelineOrder
<1>1. Init => OrderInv
  BY DEF Init, OrderInv, PipelineOrder, Early, CallsBefore
<1>2. ASSUME TypeOK, OrderInv, [Next]_vars
      PROVE  OrderInv'
  <2>. /\ app.request_middleware \in Nat
       /\ route.dependencies \in Nat
    BY <1>2, CountsAreNatural
  <2>1. CASE IgnoreNonHttp
    BY <2>1, <1>2 DEF IgnoreNonHttp, TypeOK, OrderInv, PipelineOrder, Early,
       CallsBefore, Scheduled, Goto, Finish, chosen, Call, Calls
  <2>2. CASE AnswerPreflight
    BY <2>2, <1>2 DEF AnswerPreflight, Reply, TypeOK, OrderInv, PipelineOrder,
       Early, CallsBefore, Scheduled, Goto, Finish, chosen, Call, Calls
  <2>3. CASE DeferForMiddleware
    BY <2>3, <1>2 DEF DeferForMiddleware, Defer, PlainTarget, TypeOK, OrderInv,
       PipelineOrder, Early, CallsBefore, Scheduled, Goto, Finish, chosen, Call,
       Calls
  <2>4. CASE AnswerOpenapi
    BY <2>4, <1>2 DEF AnswerOpenapi, Reply, SyncStart, TypeOK, OrderInv,
       PipelineOrder, Early, CallsBefore, Scheduled, Goto, Finish, chosen, Call,
       Calls
  <2>5. CASE AnswerUnmatched
    BY <2>5, <1>2 DEF AnswerUnmatched, Reply, SyncStart, TypeOK, OrderInv,
       PipelineOrder, Early, CallsBefore, Scheduled, Goto, Finish, chosen, Call,
       Calls
  <2>6. CASE DeferRoute
    BY <2>6, <1>2 DEF DeferRoute, SyncStart, Defer, TypeOK, OrderInv, PipelineOrder,
       Early, CallsBefore, Scheduled, Goto, Finish, chosen, Call, Calls
  <2>7. CASE StartTrivialRoute
    BY <2>7, <1>2 DEF StartTrivialRoute, SyncStart, TrivialSync, HasMiddleware,
       TypeOK, OrderInv, PipelineOrder, Early, CallsBefore, Scheduled, Goto, Finish,
       chosen, Call, Calls
  <2>8. CASE EnterMiddleware
    BY <2>8, <1>2 DEF EnterMiddleware, TypeOK, OrderInv, PipelineOrder, Early,
       CallsBefore, Scheduled, Goto, Finish, chosen, Call, Calls
  <2>9. CASE RequestMiddleware
    BY <2>9, <1>2 DEF RequestMiddleware, Fail, TypeOK, OrderInv, PipelineOrder,
       Early, CallsBefore, Scheduled, Goto, Finish, chosen, Call, Calls
  <2>10. CASE LeaveMiddleware
    BY <2>10, <1>2 DEF LeaveMiddleware, TypeOK, OrderInv, PipelineOrder, Early,
       CallsBefore, Scheduled, Goto, Finish, chosen, Call, Calls
  <2>11. CASE MatchRoute
    BY <2>11, <1>2 DEF MatchRoute, TypeOK, OrderInv, PipelineOrder, Early,
       CallsBefore, Scheduled, Goto, Finish, chosen, Call, Calls
  <2>12. CASE RateLimit
    BY <2>12, <1>2 DEF RateLimit, Pass, Reply, TypeOK, OrderInv, PipelineOrder,
       Early, CallsBefore, Scheduled, Goto, Finish, chosen, Call, Calls
  <2>13. CASE DeclaredLength
    BY <2>13, <1>2 DEF DeclaredLength, Pass, Reply, TypeOK, OrderInv, PipelineOrder,
       Early, CallsBefore, Scheduled, Goto, Finish, chosen, Call, Calls
  <2>14. CASE ReadBody
    BY <2>14, <1>2 DEF ReadBody, Pass, Reply, TypeOK, OrderInv, PipelineOrder,
       Early, CallsBefore, Scheduled, Goto, Finish, chosen, Call, Calls
  <2>15. CASE Jwt
    BY <2>15, <1>2 DEF Jwt, Pass, Reply, TypeOK, OrderInv, PipelineOrder, Early,
       CallsBefore, Scheduled, Goto, Finish, chosen, Call, Calls
  <2>16. CASE Form
    BY <2>16, <1>2 DEF Form, Pass, Reply, Fail, TypeOK, OrderInv, PipelineOrder,
       Early, CallsBefore, Scheduled, Goto, Finish, chosen, Call, Calls
  <2>17. CASE RequestContext
    BY <2>17, <1>2 DEF RequestContext, Pass, Fail, TypeOK, OrderInv, PipelineOrder,
       Early, CallsBefore, Scheduled, Goto, Finish, chosen, Call, Calls
  <2>18. CASE Dependency
    <3>1. Call("dependency", i) \in Calls
      BY <1>2, CallTyped DEF TypeOK, UserCode
    <3>2. PipelineOrder'
      BY <2>18, <1>2, <3>1, OtherCallsOrdered DEF Dependency, OrderInv, Call, chosen
    <3>3. CASE pc' = "error"
      BY <3>2, <3>3 DEF OrderInv, Early
    <3>4. CASE Goto("dependencies", i + 1)
      <4>1. /\ Len(ran) = app.request_middleware + i - 1
            /\ \A j \in 1 .. Len(ran) : ran[j] = Scheduled(j)
            /\ i \in 1 .. route.dependencies
        BY <2>18, <1>2 DEF Dependency, OrderInv, Early, CallsBefore, TypeOK
      <4>2. /\ Len(ran') = Len(ran) + 1
            /\ \A j \in 1 .. Len(ran) : ran'[j] = ran[j]
            /\ ran'[Len(ran) + 1] = Call("dependency", i)
        BY <2>18, <1>2, <3>1, AppendShape DEF Dependency, TypeOK
      <4>3. Scheduled(Len(ran) + 1) = Call("dependency", i)
        BY <4>1 DEF Scheduled
      <4>4. \A j \in 1 .. Len(ran') : ran'[j] = Scheduled(j)
        BY <4>1, <4>2, <4>3
      <4>5. pc' = "dependencies" /\ i' = i + 1 /\ UNCHANGED <<app, route>>
        BY <2>18, <3>4 DEF Goto, Dependency, chosen
      <4>. QED
        BY <3>2, <4>1, <4>2, <4>4, <4>5 DEF OrderInv, Early, CallsBefore, Scheduled
    <3>. QED
      BY <2>18, <3>3, <3>4 DEF Dependency, Fail, Goto
  <2>19. CASE LeaveDependencies
    BY <2>19, <1>2 DEF LeaveDependencies, TypeOK, OrderInv, PipelineOrder, Early,
       CallsBefore, Scheduled, Goto, Finish, chosen, Call, Calls
  <2>20. CASE RejectJson
    BY <2>20, <1>2 DEF RejectJson, Reply, TypeOK, OrderInv, PipelineOrder, Early,
       CallsBefore, Scheduled, Goto, Finish, chosen, Call, Calls
  <2>21. CASE CallHandler
    BY <2>21, <1>2 DEF CallHandler, Fail, TypeOK, OrderInv, PipelineOrder, Early,
       CallsBefore, Scheduled, Goto, Finish, chosen, Call, Calls
  <2>22. CASE StartStream
    BY <2>22, <1>2 DEF StartStream, TypeOK, OrderInv, PipelineOrder, Early,
       CallsBefore, Scheduled, Goto, Finish, chosen, Call, Calls
  <2>23. CASE AwaitHandler
    BY <2>23, <1>2 DEF AwaitHandler, Fail, TypeOK, OrderInv, PipelineOrder, Early,
       CallsBefore, Scheduled, Goto, Finish, chosen, Call, Calls
  <2>24. CASE MapReturn
    BY <2>24, <1>2 DEF MapReturn, Fail, TypeOK, OrderInv, PipelineOrder, Early,
       CallsBefore, Scheduled, Goto, Finish, chosen, Call, Calls
  <2>25. CASE ResponseMiddleware
    <3>1. Call("response_middleware", i) \in Calls
      BY <1>2, CallTyped DEF TypeOK, UserCode
    <3>2. PipelineOrder'
      BY <2>25, <1>2, <3>1, OtherCallsOrdered DEF ResponseMiddleware, OrderInv, Call, chosen
    <3>3. pc' \in {"filter", "merge", "error"}
      BY <2>25 DEF ResponseMiddleware, Goto, Fail
    <3>. QED
      BY <3>2, <3>3 DEF OrderInv, Early
  <2>26. CASE LeaveFilter
    BY <2>26, <1>2 DEF LeaveFilter, TypeOK, OrderInv, PipelineOrder, Early,
       CallsBefore, Scheduled, Goto, Finish, chosen, Call, Calls
  <2>27. CASE MergeHeaders
    BY <2>27, <1>2 DEF MergeHeaders, Fail, TypeOK, OrderInv, PipelineOrder, Early,
       CallsBefore, Scheduled, Goto, Finish, chosen, Call, Calls
  <2>28. CASE SendMapped
    BY <2>28, <1>2 DEF SendMapped, Fail, TypeOK, OrderInv, PipelineOrder, Early,
       CallsBefore, Scheduled, Goto, Finish, chosen, Call, Calls
  <2>29. CASE TryExceptionHandler
    <3>1. pc' \in {"error", "error_await", "error_map"} /\ UNCHANGED <<app, route, passed>>
      BY <2>29 DEF TryExceptionHandler, Goto, chosen
    <3>2. CASE UNCHANGED ran
      BY <3>1, <3>2, <1>2 DEF OrderInv, PipelineOrder, Scheduled, Early
    <3>3. CASE ran' = Append(ran, Call("exception_handler", i))
      <4>1. Call("exception_handler", i) \in Calls
        BY <1>2, CallTyped DEF TypeOK, UserCode
      <4>2. PipelineOrder'
        BY <1>2, <3>1, <3>3, <4>1, OtherCallsOrdered DEF OrderInv, Call
      <4>. QED
        BY <3>1, <4>2 DEF OrderInv, Early
    <3>. QED
      BY <2>29, <3>2, <3>3 DEF TryExceptionHandler
  <2>30. CASE NoExceptionHandler
    BY <2>30, <1>2 DEF NoExceptionHandler, TypeOK, OrderInv, PipelineOrder, Early,
       CallsBefore, Scheduled, Goto, Finish, chosen, Call, Calls
  <2>31. CASE AwaitExceptionHandler
    BY <2>31, <1>2 DEF AwaitExceptionHandler, Reply, TypeOK, OrderInv,
       PipelineOrder, Early, CallsBefore, Scheduled, Goto, Finish, chosen, Call,
       Calls
  <2>32. CASE SendHandled
    BY <2>32, <1>2 DEF SendHandled, TypeOK, OrderInv, PipelineOrder, Early,
       CallsBefore, Scheduled, Goto, Finish, chosen, Call, Calls
  <2>33. CASE SendDefault
    BY <2>33, <1>2 DEF SendDefault, Reply, TypeOK, OrderInv, PipelineOrder, Early,
       CallsBefore, Scheduled, Goto, Finish, chosen, Call, Calls
  <2>34. CASE UNCHANGED vars
    BY <2>34, <1>2 DEF vars, TypeOK, OrderInv, PipelineOrder, Early, CallsBefore,
       Scheduled, Goto, Finish, chosen, Call, Calls
  <2>. QED
    BY <1>2, <2>1, <2>2, <2>3, <2>4, <2>5, <2>6, <2>7, <2>8, <2>9, <2>10, <2>11,
       <2>12, <2>13, <2>14, <2>15, <2>16, <2>17, <2>18, <2>19, <2>20, <2>21, <2>22,
       <2>23, <2>24, <2>25, <2>26, <2>27, <2>28, <2>29, <2>30, <2>31, <2>32, <2>33,
       <2>34 DEF Next
<1>3. OrderInv => PipelineOrder
  BY DEF OrderInv
<1>. QED
  BY <1>1, <1>2, <1>3, TypeCorrect, PTL DEF Spec

-----------------------------------------------------------------------------
(* The responses.                                                          *)

\* Until the request is done only user code can have answered it.
AnswerInv ==
    /\ pc # "done" => \A k \in DOMAIN sent : sent[k].by = "user"
    /\ AnsweredOnce
    /\ NeverSilent

\* The framework's answer to a request that is not done is the only one it gives.
LEMMA FrameworkAnswers ==
    ASSUME TypeOK, AnswerInv, pc # "done", NEW status \in Statuses,
           sent' = Append(sent, Response("framework", status)), Finish("returned")
    PROVE  AnswerInv'
<1>1. Response("framework", status) \in Responses
  BY ResponseTyped
<1>2. /\ Len(sent) \in Nat /\ DOMAIN sent = 1 .. Len(sent)
      /\ DOMAIN sent' = 1 .. (Len(sent) + 1)
      /\ \A k \in 1 .. Len(sent) : sent'[k] = sent[k]
  BY <1>1, AppendShape DEF TypeOK
<1>3. sent' # <<>>
  BY <1>2
<1>4. \A k \in DOMAIN sent' : sent'[k].by = "framework" => k = Len(sent) + 1
  BY <1>2 DEF AnswerInv
<1>. QED
  BY <1>3, <1>4 DEF AnswerInv, AnsweredOnce, NeverSilent, Finish, Goto

\* A reply is such an answer, or ends the request with the transport's exception.
LEMMA ReplyAnswers ==
    ASSUME TypeOK, AnswerInv, pc # "done", NEW status \in Statuses, Reply(status)
    PROVE  AnswerInv'
<1>1. CASE sent' = Append(sent, Response("framework", status)) /\ Finish("returned")
  BY <1>1, FrameworkAnswers
<1>2. CASE sent' = sent /\ Finish("raised")
  BY <1>2 DEF AnswerInv, AnsweredOnce, NeverSilent, Finish, Goto
<1>. QED
  BY <1>1, <1>2 DEF Reply

\* An answer of user code leaves the framework's still to come.
LEMMA UserAnswers ==
    ASSUME TypeOK, AnswerInv, pc # "done", NEW status \in Statuses,
           sent' = Append(sent, Response("user", status)), pc' # "done"
    PROVE  AnswerInv'
<1>1. Response("user", status) \in Responses
  BY ResponseTyped
<1>2. /\ Len(sent) \in Nat /\ DOMAIN sent = 1 .. Len(sent)
      /\ DOMAIN sent' = 1 .. (Len(sent) + 1)
      /\ \A k \in 1 .. Len(sent) : sent'[k] = sent[k]
      /\ sent'[Len(sent) + 1] = Response("user", status)
  BY <1>1, AppendShape DEF TypeOK
<1>3. \A k \in DOMAIN sent' : sent'[k].by = "user"
  BY <1>2 DEF AnswerInv, Response
<1>. QED
  BY <1>3 DEF AnswerInv, AnsweredOnce, NeverSilent

\* A step that sends nothing and does not end the request.
LEMMA NothingSent ==
    ASSUME AnswerInv, pc # "done", UNCHANGED sent, pc' # "done"
    PROVE  AnswerInv'
BY DEF AnswerInv, AnsweredOnce, NeverSilent

LEMMA AnswerInvHolds == Spec => []AnswerInv
<1>1. Init => AnswerInv
  BY DEF Init, AnswerInv, AnsweredOnce, NeverSilent
<1>2. ASSUME TypeOK, AnswerInv, [Next]_vars
      PROVE  AnswerInv'
  <2>1. CASE IgnoreNonHttp
    BY <2>1, <1>2 DEF IgnoreNonHttp, TypeOK, AnswerInv, AnsweredOnce, NeverSilent,
       Goto, Finish, chosen, Response, Responses
  <2>2. CASE AnswerPreflight
    BY <2>2, <1>2, ReplyAnswers DEF AnswerPreflight, Statuses
  <2>3. CASE DeferForMiddleware
    BY <2>3, <1>2 DEF DeferForMiddleware, Defer, PlainTarget, TypeOK, AnswerInv,
       AnsweredOnce, NeverSilent, Goto, Finish, chosen, Response, Responses
  <2>4. CASE AnswerOpenapi
    BY <2>4, <1>2, ReplyAnswers DEF AnswerOpenapi, SyncStart, Statuses
  <2>5. CASE AnswerUnmatched
    <3>1. CASE Finish("raised") /\ UNCHANGED sent
      BY <2>5, <3>1, <1>2 DEF AnswerUnmatched, SyncStart, AnswerInv, AnsweredOnce, NeverSilent, Finish, Goto
    <3>. QED
      BY <2>5, <3>1, <1>2, ReplyAnswers, NothingSent DEF AnswerUnmatched, SyncStart, Pass, Goto, Statuses
  <2>6. CASE DeferRoute
    BY <2>6, <1>2 DEF DeferRoute, SyncStart, Defer, TypeOK, AnswerInv, AnsweredOnce,
       NeverSilent, Goto, Finish, chosen, Response, Responses
  <2>7. CASE StartTrivialRoute
    BY <2>7, <1>2 DEF StartTrivialRoute, SyncStart, TrivialSync, HasMiddleware,
       TypeOK, AnswerInv, AnsweredOnce, NeverSilent, Goto, Finish, chosen, Response,
       Responses
  <2>8. CASE EnterMiddleware
    BY <2>8, <1>2 DEF EnterMiddleware, TypeOK, AnswerInv, AnsweredOnce, NeverSilent,
       Goto, Finish, chosen, Response, Responses
  <2>9. CASE RequestMiddleware
    <3>1. pc # "done" /\ pc' # "done"
      BY <2>9 DEF RequestMiddleware, Fail, Goto
    <3>2. UNCHANGED sent \/ sent' = Append(sent, Response("user", "middleware"))
      BY <2>9 DEF RequestMiddleware
    <3>. QED
      BY <1>2, <3>1, <3>2, UserAnswers, NothingSent DEF Statuses
  <2>10. CASE LeaveMiddleware
    BY <2>10, <1>2 DEF LeaveMiddleware, TypeOK, AnswerInv, AnsweredOnce,
       NeverSilent, Goto, Finish, chosen, Response, Responses
  <2>11. CASE MatchRoute
    BY <2>11, <1>2 DEF MatchRoute, TypeOK, AnswerInv, AnsweredOnce, NeverSilent,
       Goto, Finish, chosen, Response, Responses
  <2>12. CASE RateLimit
    BY <2>12, <1>2, ReplyAnswers, NothingSent DEF RateLimit, Pass, Goto, Statuses
  <2>13. CASE DeclaredLength
    BY <2>13, <1>2, ReplyAnswers, NothingSent DEF DeclaredLength, Pass, Goto, Statuses
  <2>14. CASE ReadBody
    <3>1. CASE Finish("raised") /\ UNCHANGED sent
      BY <2>14, <3>1, <1>2 DEF ReadBody, AnswerInv, AnsweredOnce, NeverSilent, Finish, Goto
    <3>. QED
      BY <2>14, <3>1, <1>2, ReplyAnswers, NothingSent DEF ReadBody, Pass, Goto, Statuses
  <2>15. CASE Jwt
    BY <2>15, <1>2, ReplyAnswers, NothingSent DEF Jwt, Pass, Goto, Statuses
  <2>16. CASE Form
    BY <2>16, <1>2, ReplyAnswers, NothingSent DEF Form, Pass, Fail, Goto, Statuses
  <2>17. CASE RequestContext
    BY <2>17, <1>2 DEF RequestContext, Pass, Fail, TypeOK, AnswerInv, AnsweredOnce,
       NeverSilent, Goto, Finish, chosen, Response, Responses
  <2>18. CASE Dependency
    BY <2>18, <1>2 DEF Dependency, Fail, TypeOK, AnswerInv, AnsweredOnce,
       NeverSilent, Goto, Finish, chosen, Response, Responses
  <2>19. CASE LeaveDependencies
    BY <2>19, <1>2 DEF LeaveDependencies, TypeOK, AnswerInv, AnsweredOnce,
       NeverSilent, Goto, Finish, chosen, Response, Responses
  <2>20. CASE RejectJson
    BY <2>20, <1>2, ReplyAnswers DEF RejectJson, Statuses
  <2>21. CASE CallHandler
    <3>1. pc # "done" /\ pc' # "done"
      BY <2>21 DEF CallHandler, Fail, Goto
    <3>2. UNCHANGED sent \/ sent' = Append(sent, Response("user", "file"))
      BY <2>21 DEF CallHandler
    <3>. QED
      BY <1>2, <3>1, <3>2, UserAnswers, NothingSent DEF Statuses
  <2>22. CASE StartStream
    <3>1. pc # "done" /\ pc' # "done"
      BY <2>22 DEF StartStream, Fail, Goto
    <3>2. UNCHANGED sent \/ sent' = Append(sent, Response("user", "stream"))
      BY <2>22 DEF StartStream
    <3>. QED
      BY <1>2, <3>1, <3>2, UserAnswers, NothingSent DEF Statuses
  <2>23. CASE AwaitHandler
    BY <2>23, <1>2 DEF AwaitHandler, Fail, TypeOK, AnswerInv, AnsweredOnce,
       NeverSilent, Goto, Finish, chosen, Response, Responses
  <2>24. CASE MapReturn
    BY <2>24, <1>2 DEF MapReturn, Fail, TypeOK, AnswerInv, AnsweredOnce,
       NeverSilent, Goto, Finish, chosen, Response, Responses
  <2>25. CASE ResponseMiddleware
    BY <2>25, <1>2 DEF ResponseMiddleware, Fail, TypeOK, AnswerInv, AnsweredOnce,
       NeverSilent, Goto, Finish, chosen, Response, Responses
  <2>26. CASE LeaveFilter
    BY <2>26, <1>2 DEF LeaveFilter, TypeOK, AnswerInv, AnsweredOnce, NeverSilent,
       Goto, Finish, chosen, Response, Responses
  <2>27. CASE MergeHeaders
    BY <2>27, <1>2 DEF MergeHeaders, Fail, TypeOK, AnswerInv, AnsweredOnce,
       NeverSilent, Goto, Finish, chosen, Response, Responses
  <2>28. CASE SendMapped
    <3>1. CASE pc' # "done"
      BY <2>28, <3>1, <1>2, NothingSent DEF SendMapped, Finish, Goto
    <3>2. CASE UNCHANGED sent /\ pc' = "done"
      BY <2>28, <3>2, <1>2 DEF SendMapped, AnswerInv, AnsweredOnce, NeverSilent, Finish, Goto, Fail
    <3>3. CASE sent' = Append(sent, Response("framework", "mapped")) /\ Finish("returned")
      BY <2>28, <3>3, <1>2, FrameworkAnswers DEF SendMapped, Statuses
    <3>. QED
      BY <2>28, <3>1, <3>2, <3>3 DEF SendMapped, Finish, Goto, Fail
  <2>29. CASE TryExceptionHandler
    BY <2>29, <1>2, NothingSent DEF TryExceptionHandler, Goto
  <2>30. CASE NoExceptionHandler
    BY <2>30, <1>2 DEF NoExceptionHandler, TypeOK, AnswerInv, AnsweredOnce,
       NeverSilent, Goto, Finish, chosen, Response, Responses
  <2>31. CASE AwaitExceptionHandler
    BY <2>31, <1>2, ReplyAnswers, NothingSent DEF AwaitExceptionHandler, Goto, Statuses
  <2>32. CASE SendHandled
    <3>1. CASE pc' # "done"
      BY <2>32, <3>1, <1>2, NothingSent DEF SendHandled, Finish, Goto
    <3>2. CASE UNCHANGED sent /\ pc' = "done"
      BY <2>32, <3>2, <1>2 DEF SendHandled, AnswerInv, AnsweredOnce, NeverSilent, Finish, Goto, Fail
    <3>3. CASE sent' = Append(sent, Response("framework", "handled")) /\ Finish("returned")
      BY <2>32, <3>3, <1>2, FrameworkAnswers DEF SendHandled, Statuses
    <3>. QED
      BY <2>32, <3>1, <3>2, <3>3 DEF SendHandled, Finish, Goto, Fail
  <2>33. CASE SendDefault
    BY <2>33, <1>2, ReplyAnswers DEF SendDefault, Statuses
  <2>34. CASE UNCHANGED vars
    BY <2>34, <1>2 DEF vars, TypeOK, AnswerInv, AnsweredOnce, NeverSilent, Goto,
       Finish, chosen, Response, Responses
  <2>. QED
    BY <1>2, <2>1, <2>2, <2>3, <2>4, <2>5, <2>6, <2>7, <2>8, <2>9, <2>10, <2>11,
       <2>12, <2>13, <2>14, <2>15, <2>16, <2>17, <2>18, <2>19, <2>20, <2>21, <2>22,
       <2>23, <2>24, <2>25, <2>26, <2>27, <2>28, <2>29, <2>30, <2>31, <2>32, <2>33,
       <2>34 DEF Next
<1>. QED
  BY <1>1, <1>2, TypeCorrect, PTL DEF Spec

\* Of the many places of run_rsgi that send a response, at most one does so in a request.
THEOREM AnswersHold == Spec => []AnsweredOnce
<1>1. AnswerInv => AnsweredOnce
  BY DEF AnswerInv
<1>. QED
  BY <1>1, AnswerInvHolds, PTL

\* Every way out of run_rsgi answers the request, unless it raises to the server or user
\* code returned the marker that says it has answered.
THEOREM NeverLeftSilent == Spec => []NeverSilent
<1>1. AnswerInv => NeverSilent
  BY DEF AnswerInv
<1>. QED
  BY <1>1, AnswerInvHolds, PTL

-----------------------------------------------------------------------------
(* The response middlewares.                                               *)

\* The last n calls were those of the first n response middlewares.
Filtered(n) ==
    /\ n <= Len(ran)
    /\ \A m \in 1 .. n : ran[Len(ran) - n + m] = Call("response_middleware", m)

\* Before the end nothing mapped has been sent; in the loop the middlewares in front of
\* the position have run, after it all of them have, unless user code has answered.
FilterInv ==
    /\ pc # "done" => \A k \in DOMAIN sent : sent[k].status # "mapped"
    /\ pc = "filter" => i \in 1 .. (app.response_middleware + 1) /\ Filtered(i - 1)
    /\ pc \in {"merge", "send"} /\ mapped = "value" => Filtered(app.response_middleware)
    /\ MappedWasFiltered

\* A step outside the response middlewares: it sends nothing that is mapped.
Quiet ==
    /\ pc # "done" /\ pc' \notin {"filter", "merge", "send"}
    /\ \/ sent' = sent
       \/ \E by \in {"framework", "user"}, status \in Statuses \ {"mapped"} :
             sent' = Append(sent, Response(by, status))

LEMMA NothingMapped ==
    ASSUME TypeOK, FilterInv, Quiet
    PROVE  \A k \in DOMAIN sent' : sent'[k].status # "mapped"
<1>1. CASE sent' = sent
  BY <1>1 DEF FilterInv, Quiet
<1>2. ASSUME NEW by \in {"framework", "user"}, NEW status \in Statuses \ {"mapped"},
             sent' = Append(sent, Response(by, status))
      PROVE  \A k \in DOMAIN sent' : sent'[k].status # "mapped"
  <2>1. Response(by, status) \in Responses /\ Response(by, status).status # "mapped"
    BY DEF Response, Responses
  <2>2. /\ Len(sent) \in Nat /\ DOMAIN sent = 1 .. Len(sent)
        /\ DOMAIN sent' = 1 .. (Len(sent) + 1)
        /\ \A k \in 1 .. Len(sent) : sent'[k] = sent[k]
        /\ sent'[Len(sent) + 1] = Response(by, status)
    BY <1>2, <2>1, AppendShape DEF TypeOK
  <2>. QED
    BY <2>1, <2>2 DEF FilterInv, Quiet
<1>. QED
  BY <1>1, <1>2 DEF Quiet

LEMMA QuietKeepsFilterInv ==
    ASSUME TypeOK, FilterInv, Quiet
    PROVE  FilterInv'
BY NothingMapped DEF FilterInv, Quiet, MappedWasFiltered

\* The steps outside the response middlewares are quiet.
LEMMA QuietSteps ==
    ASSUME TypeOK,
           \/ IgnoreNonHttp \/ AnswerPreflight \/ DeferForMiddleware \/ AnswerOpenapi
           \/ AnswerUnmatched \/ DeferRoute \/ StartTrivialRoute \/ EnterMiddleware
           \/ RequestMiddleware \/ LeaveMiddleware \/ MatchRoute \/ RateLimit
           \/ DeclaredLength \/ ReadBody \/ Jwt \/ Form \/ RequestContext
           \/ Dependency \/ LeaveDependencies \/ RejectJson \/ CallHandler
           \/ StartStream \/ AwaitHandler \/ TryExceptionHandler \/ NoExceptionHandler
           \/ AwaitExceptionHandler \/ SendHandled \/ SendDefault
    PROVE  Quiet
<1>1. CASE IgnoreNonHttp
  BY <1>1 DEF IgnoreNonHttp, Quiet, Goto, Finish, Statuses
<1>2. CASE AnswerPreflight
  BY <1>2 DEF AnswerPreflight, Reply, Quiet, Goto, Finish, Statuses
<1>3. CASE DeferForMiddleware
  BY <1>3 DEF DeferForMiddleware, Defer, Quiet, Goto, Finish, Statuses
<1>4. CASE AnswerOpenapi
  BY <1>4 DEF AnswerOpenapi, Reply, SyncStart, Quiet, Goto, Finish, Statuses
<1>5. CASE AnswerUnmatched
  BY <1>5 DEF AnswerUnmatched, Reply, SyncStart, Quiet, Goto, Finish, Statuses
<1>6. CASE DeferRoute
  BY <1>6 DEF DeferRoute, SyncStart, Defer, Quiet, Goto, Finish, Statuses
<1>7. CASE StartTrivialRoute
  BY <1>7 DEF StartTrivialRoute, SyncStart, Quiet, Goto, Finish, Statuses
<1>8. CASE EnterMiddleware
  BY <1>8 DEF EnterMiddleware, Quiet, Goto, Finish, Statuses
<1>9. CASE RequestMiddleware
  BY <1>9 DEF RequestMiddleware, Fail, Quiet, Goto, Finish, Statuses
<1>10. CASE LeaveMiddleware
  BY <1>10 DEF LeaveMiddleware, Quiet, Goto, Finish, Statuses
<1>11. CASE MatchRoute
  BY <1>11 DEF MatchRoute, Quiet, Goto, Finish, Statuses
<1>12. CASE RateLimit
  BY <1>12 DEF RateLimit, Pass, Reply, Quiet, Goto, Finish, Statuses
<1>13. CASE DeclaredLength
  BY <1>13 DEF DeclaredLength, Pass, Reply, Quiet, Goto, Finish, Statuses
<1>14. CASE ReadBody
  BY <1>14 DEF ReadBody, Pass, Reply, Quiet, Goto, Finish, Statuses
<1>15. CASE Jwt
  BY <1>15 DEF Jwt, Pass, Reply, Quiet, Goto, Finish, Statuses
<1>16. CASE Form
  BY <1>16 DEF Form, Pass, Reply, Fail, Quiet, Goto, Finish, Statuses
<1>17. CASE RequestContext
  BY <1>17 DEF RequestContext, Pass, Fail, Quiet, Goto, Finish, Statuses
<1>18. CASE Dependency
  BY <1>18 DEF Dependency, Fail, Quiet, Goto, Finish, Statuses
<1>19. CASE LeaveDependencies
  BY <1>19 DEF LeaveDependencies, Quiet, Goto, Finish, Statuses
<1>20. CASE RejectJson
  BY <1>20 DEF RejectJson, Reply, Quiet, Goto, Finish, Statuses
<1>21. CASE CallHandler
  BY <1>21 DEF CallHandler, Fail, Quiet, Goto, Finish, Statuses
<1>22. CASE StartStream
  BY <1>22 DEF StartStream, Quiet, Goto, Finish, Statuses
<1>23. CASE AwaitHandler
  BY <1>23 DEF AwaitHandler, Fail, Quiet, Goto, Finish, Statuses
<1>24. CASE TryExceptionHandler
  BY <1>24 DEF TryExceptionHandler, Quiet, Goto, Finish, Statuses
<1>25. CASE NoExceptionHandler
  BY <1>25 DEF NoExceptionHandler, Quiet, Goto, Finish, Statuses
<1>26. CASE AwaitExceptionHandler
  BY <1>26 DEF AwaitExceptionHandler, Reply, Quiet, Goto, Finish, Statuses
<1>27. CASE SendHandled
  BY <1>27 DEF SendHandled, Quiet, Goto, Finish, Statuses
<1>28. CASE SendDefault
  BY <1>28 DEF SendDefault, Reply, Quiet, Goto, Finish, Statuses
<1>. QED
  BY <1>1, <1>2, <1>3, <1>4, <1>5, <1>6, <1>7, <1>8, <1>9, <1>10, <1>11, <1>12, <1>13, <1>14, <1>15, <1>16, <1>17, <1>18, <1>19, <1>20, <1>21, <1>22, <1>23, <1>24, <1>25, <1>26, <1>27, <1>28

\* One more response middleware.
LEMMA FilteredAppend ==
    ASSUME TypeOK, NEW n \in Nat, Filtered(n),
           ran' = Append(ran, Call("response_middleware", n + 1))
    PROVE  Filtered(n + 1)'
<1>1. Call("response_middleware", n + 1) \in Calls
  BY CallTyped DEF UserCode
<1>2. /\ Len(ran) \in Nat /\ Len(ran') = Len(ran) + 1
      /\ \A k \in 1 .. Len(ran) : ran'[k] = ran[k]
      /\ ran'[Len(ran) + 1] = Call("response_middleware", n + 1)
  BY <1>1, AppendShape DEF TypeOK
<1>3. n <= Len(ran) /\ \A m \in 1 .. n : ran[Len(ran) - n + m] = Call("response_middleware", m)
  BY DEF Filtered
<1>4. ASSUME NEW m \in 1 .. (n + 1)
      PROVE  ran'[Len(ran') - (n + 1) + m] = Call("response_middleware", m)
  <2>1. CASE m = n + 1
    BY <1>2, <2>1
  <2>2. CASE m # n + 1
    <3>1. m \in 1 .. n /\ Len(ran) - n + m \in 1 .. Len(ran)
          /\ Len(ran') - (n + 1) + m = Len(ran) - n + m
      BY <1>2, <1>3, <2>2
    <3>. QED
      BY <1>2, <1>3, <3>1
  <2>. QED
    BY <2>1, <2>2
<1>5. n + 1 <= Len(ran')
  BY <1>2, <1>3
<1>6. \A m \in 1 .. (n + 1) : ran'[Len(ran') - (n + 1) + m] = Call("response_middleware", m)
  BY <1>4
<1>. QED
  BY ONLY <1>5, <1>6 DEF Filtered

\* A response that was mapped and sent has been through every response middleware.
THEOREM FiltersHold == Spec => []MappedWasFiltered
<1>1. Init => FilterInv
  BY DEF Init, FilterInv, MappedWasFiltered
<1>2. ASSUME TypeOK, FilterInv, [Next]_vars
      PROVE  FilterInv'
  <2>. /\ app.response_middleware \in Nat /\ Len(ran) \in Nat
    BY <1>2, MiddlewareAssumption DEF TypeOK, Snapshots
  <2>1. CASE MapReturn
    <3>1. Filtered(0)
      BY DEF Filtered
    <3>2. /\ pc = "map" /\ UNCHANGED <<app, ran, sent, mapped>>
          /\ \/ mapped = "sent" /\ pc' = "merge"
             \/ pc' = "filter" /\ i' = 1
             \/ pc' = "error"
      BY <2>1 DEF MapReturn, Fail, Goto, chosen
    <3>3. pc' = "filter" => Filtered(0)'
      BY <3>2 DEF Filtered
    <3>. QED
      BY <1>2, <3>2, <3>3 DEF FilterInv, MappedWasFiltered
  <2>2. CASE ResponseMiddleware
    <3>1. /\ pc = "filter" /\ i <= app.response_middleware /\ UNCHANGED <<app, sent>>
          /\ ran' = Append(ran, Call("response_middleware", i))
          /\ \/ pc' = "filter" /\ i' = i + 1
             \/ pc' = "merge" /\ mapped' = "sent"
             \/ pc' = "error"
      BY <2>2 DEF ResponseMiddleware, Fail, Goto, chosen
    <3>2. i \in 1 .. app.response_middleware /\ Filtered(i - 1)
      BY <1>2, <3>1 DEF FilterInv
    <3>3. ASSUME NEW n \in Nat, n = i - 1 PROVE Filtered(n + 1)'
      BY <1>2, <3>1, <3>2, <3>3, FilteredAppend
    <3>4. i - 1 \in Nat /\ (i - 1) + 1 = i
      BY <3>2
    <3>5. i' = i + 1 => i' \in 1 .. (app.response_middleware + 1) /\ i' - 1 = i
      BY <3>2
    <3>6. pc' = "filter" => Filtered(i - 1)'
      BY <3>1, <3>3, <3>4, <3>5 DEF Filtered
    <3>7. \A k \in DOMAIN sent : sent[k].status # "mapped"
      BY <1>2, <3>1 DEF FilterInv
    <3>. QED
      BY <3>1, <3>5, <3>6, <3>7 DEF FilterInv, MappedWasFiltered
  <2>3. CASE LeaveFilter
    <3>1. /\ pc = "filter" /\ pc' = "merge" /\ UNCHANGED <<app, sent, ran, mapped>>
          /\ i > app.response_middleware
      BY <2>3 DEF LeaveFilter, Goto, chosen
    <3>2. i - 1 = app.response_middleware
      BY <1>2, <3>1 DEF FilterInv
    <3>3. Filtered(app.response_middleware)'
      BY <1>2, <3>1, <3>2 DEF FilterInv, Filtered
    <3>. QED
      BY <1>2, <3>1, <3>3 DEF FilterInv, MappedWasFiltered
  <2>4. CASE MergeHeaders
    BY <1>2, <2>4 DEF MergeHeaders, Fail, Goto, chosen, FilterInv, MappedWasFiltered, Filtered
  <2>5. CASE SendMapped
    <3>1. CASE UNCHANGED sent
      BY <1>2, <2>5, <3>1 DEF SendMapped, Finish, Fail, Goto, FilterInv, MappedWasFiltered
    <3>2. CASE mapped = "value" /\ Finish("returned")
      <4>1. Filtered(app.response_middleware) /\ UNCHANGED <<app, ran>> /\ pc' = "done"
        BY <1>2, <2>5, <3>2 DEF SendMapped, FilterInv, Finish, Goto, chosen
      <4>2. \A n \in 1 .. app.response_middleware :
               /\ Len(ran) - app.response_middleware + n > 0
               /\ ran[Len(ran) - app.response_middleware + n] = Call("response_middleware", n)
        BY <4>1 DEF Filtered
      <4>. QED
        BY <4>1, <4>2 DEF FilterInv, MappedWasFiltered
    <3>. QED
      BY <2>5, <3>1, <3>2 DEF SendMapped
  <2>6. CASE UNCHANGED vars
    BY <1>2, <2>6 DEF vars, FilterInv, MappedWasFiltered, Filtered
  <2>. QED
    BY <1>2, <2>1, <2>2, <2>3, <2>4, <2>5, <2>6, QuietSteps, QuietKeepsFilterInv DEF Next
<1>3. FilterInv => MappedWasFiltered
  BY DEF FilterInv
<1>. QED
  BY <1>1, <1>2, <1>3, TypeCorrect, PTL DEF Spec

-----------------------------------------------------------------------------
(* The error path.                                                         *)

ErrorStages == {"error", "error_await", "error_map", "error_default", "done"}

\* Control never returns from the error path.
ErrorInv == err # "none" => pc \in ErrorStages

\* A step in front of the error path reports no error, or enters it without having
\* reported one before; a step on it stays there.
LEMMA ErrorStep ==
    ASSUME ErrorInv, [Next]_vars
    PROVE  /\ ErrorInv'
           /\ err # "none" /\ ran' # ran => TryExceptionHandler
<1>1. CASE pc \in ErrorStages
  <2>1. CASE TryExceptionHandler
    BY <2>1 DEF TryExceptionHandler, ErrorInv, ErrorStages, Goto
  <2>2. CASE NoExceptionHandler \/ AwaitExceptionHandler \/ SendHandled \/ SendDefault
    BY <2>2 DEF NoExceptionHandler, AwaitExceptionHandler, SendHandled, SendDefault, Reply,
       ErrorInv, ErrorStages, Goto, Finish
  <2>3. CASE UNCHANGED vars
    BY <2>3 DEF vars, ErrorInv
  <2>. QED
    BY <1>1, <2>1, <2>2, <2>3 DEF Next, ErrorStages, IgnoreNonHttp, AnswerPreflight,
       DeferForMiddleware, AnswerOpenapi, AnswerUnmatched, DeferRoute, StartTrivialRoute,
       SyncStart, EnterMiddleware, RequestMiddleware, LeaveMiddleware, MatchRoute, RateLimit,
       DeclaredLength, ReadBody, Jwt, Form, RequestContext, Dependency, LeaveDependencies,
       RejectJson, CallHandler, StartStream, AwaitHandler, MapReturn, ResponseMiddleware,
       LeaveFilter, MergeHeaders, SendMapped
<1>2. CASE pc \notin ErrorStages
  <2>1. err = "none"
    BY <1>2 DEF ErrorInv
  <2>2. err' = err \/ pc' = "error"
    <3>1. CASE TryExceptionHandler \/ NoExceptionHandler \/ AwaitExceptionHandler
               \/ SendHandled \/ SendDefault
      BY <1>2, <3>1 DEF TryExceptionHandler, NoExceptionHandler, AwaitExceptionHandler,
         SendHandled, SendDefault, ErrorStages
    <3>2. CASE RequestMiddleware \/ Form \/ RequestContext \/ Dependency \/ CallHandler
               \/ AwaitHandler \/ MapReturn \/ ResponseMiddleware \/ MergeHeaders \/ SendMapped
      BY <3>2 DEF RequestMiddleware, Form, RequestContext, Dependency, CallHandler,
         AwaitHandler, MapReturn, ResponseMiddleware, MergeHeaders, SendMapped, Pass, Reply,
         Fail, Goto
    <3>3. CASE IgnoreNonHttp \/ AnswerPreflight \/ DeferForMiddleware \/ AnswerOpenapi
               \/ AnswerUnmatched \/ DeferRoute \/ StartTrivialRoute \/ EnterMiddleware
               \/ LeaveMiddleware \/ MatchRoute
      BY <3>3 DEF IgnoreNonHttp, AnswerPreflight, DeferForMiddleware, AnswerOpenapi,
         AnswerUnmatched, DeferRoute, StartTrivialRoute, EnterMiddleware, LeaveMiddleware,
         MatchRoute, Defer, Reply
    <3>4. CASE RateLimit \/ DeclaredLength \/ ReadBody \/ Jwt \/ LeaveDependencies
               \/ RejectJson \/ StartStream \/ LeaveFilter \/ UNCHANGED vars
      BY <3>4 DEF RateLimit, DeclaredLength, ReadBody, Jwt, LeaveDependencies, RejectJson,
         StartStream, LeaveFilter, Pass, Reply, vars
    <3>. QED
      BY <3>1, <3>2, <3>3, <3>4 DEF Next
  <2>. QED
    BY <2>1, <2>2 DEF ErrorInv, ErrorStages
<1>. QED
  BY <1>1, <1>2

\* Once an error is being reported no middleware, dependency or handler runs any more.
THEOREM ErrorsStopPipeline == Spec => ErrorStopsPipeline
<1>1. Init => ErrorInv
  BY DEF Init, ErrorInv
<1>2. ErrorInv /\ [Next]_vars => ErrorInv'
  BY ErrorStep
<1>3. TypeOK /\ ErrorInv /\ [Next]_vars =>
         [err # "none" /\ ran' # ran => ran'[Len(ran')].what = "exception_handler"]_vars
  <2>1. ASSUME TypeOK, ErrorInv, [Next]_vars, err # "none", ran' # ran
        PROVE  ran'[Len(ran')].what = "exception_handler"
    <3>1. ran' = Append(ran, Call("exception_handler", i))
      BY <2>1, ErrorStep DEF TryExceptionHandler
    <3>2. Call("exception_handler", i) \in Calls
      BY <2>1, CallTyped DEF TypeOK, UserCode
    <3>3. ran'[Len(ran')] = Call("exception_handler", i)
      BY <2>1, <3>1, <3>2, AppendShape DEF TypeOK
    <3>. QED
      BY <3>3 DEF Call
  <2>. QED
    BY <2>1
<1>. QED
  BY <1>1, <1>2, <1>3, TypeCorrect, PTL DEF Spec, ErrorStopsPipeline
=============================================================================
