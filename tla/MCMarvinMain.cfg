SPECIFICATION Spec
CONSTANTS
    consumer = consumer
    producer = producer
    display = display
    sleeper = sleeper
    sem = sem
    aux = aux
    Task = {consumer, producer, display, sleeper}
    Idle = Idle
    NULL = NULL
    Sem = {sem}
    NoSem = NoSem
    Created <- FourTasks
    BootCount <- NoResource
    Program <- MainProgram
    Quantum = 2
    MaxSleep = 2
    MaxCount = 1
INVARIANTS
    LockExcludes
    BlockedDoesNotRun
    MaskIsReleased
    ListsPartition
    BooksBalance
PROPERTIES
    AlarmsAnswered
