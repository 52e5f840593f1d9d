\* Two objects give tables that overlap, replace and empty each other; five
\* events and room for three give polls of a queue of every length up to three
\* and a queue that overflows.
CONSTANTS
    Objects = {o1, o2}
    NoObject = NoObject
    QueueMax = 3
    MaxEvents = 5
SPECIFICATION Spec
INVARIANTS
    CallpathsMatchTable
    ExportsCurrent
    EventsInOrder
PROPERTY
    PollTakesHalf
CHECK_DEADLOCK FALSE
