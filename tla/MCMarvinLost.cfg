SPECIFICATION FairSpec
CONSTANTS
    consumer = consumer
    producer = producer
    display = display
    sleeper = sleeper
    sem = sem
    aux = aux
    Task = {consumer, producer, sleeper}
    Idle = Idle
    NULL = NULL
    Sem = {sem, aux}
    NoSem = NoSem
    Created <- ThreeTasks
    BootCount <- NoResource
    Program <- SleepersProgram
    Quantum = 2
    MaxSleep = 2
    MaxCount = 1
PROPERTY
    SleeperWakes
