\* Two submitters, three events, one waiter calling wait() repeatedly.
CONSTANTS
    s1 = s1
    s2 = s2
    Submitters <- MCSubmitters
    MaxEvents = 3
SPECIFICATION Spec
INVARIANTS
    TypeOK
    DeliveredInOrder
PROPERTIES
    WaitDrains
    EventuallyDelivered
    WaitReturns
\* Once the bounded submissions are done the worker parks in cond.Wait for
\* good: an idle decorator is a state the program may stay in.  A thread
\* stuck for another reason is caught by the liveness properties.
CHECK_DEADLOCK FALSE
