SPECIFICATION Spec
CONSTANTS
    consumer = consumer
    producer = producer
    display = display
    sleeper = sleeper
    sem = sem
    aux = aux
    Task = {consumer, producer}
    Idle = Idle
    NULL = NULL
    Sem = {sem, aux}
    NoSem = NoSem
    Created <- LiveTasks
    BootCount <- NoResource
    Program <- LiveProgram
    Quantum = 2
    MaxSleep = 2
    MaxCount = 1
INVARIANT
    DeadMeansDead
