\* A Task more than the queue has room for, with and without the users' contract.
\* Two Android views and two addresses; four iOS requests whose answers come
\* late and in any order.
CONSTANTS
  react = react
  h1 = h1
  h2 = h2
  h3 = h3
  webview = webview
  null = null
  Tasks = {t1, t2}
  Funcs = {f}
  Handlers = {react, h1, h2, h3}
  React = react
  Filter <- MCFilter
  Messages <- MCMessages
  Capacity = 1
  Null = null
  Views = {v1, v2}
  Urls = {u1, u2}
  NoUrl = none
  Requests = {1, 2, 3, 4}
SPECIFICATION MCSpec
INVARIANTS DeliveredOnce NothingLost ContractSuffices LoadEventsPaired DecisionIsOwn
PROPERTIES StopReturns
\* Undefined behaviour stops the model; the frame thread may end; no request or view
\* is left in the end.
CHECK_DEADLOCK FALSE
