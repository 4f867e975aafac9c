CONSTANTS
    groq = groq  deepseek = deepseek  gemini = gemini  openai = openai
    llama = llama  chat = chat  reasoner = reasoner  flash = flash  gpt = gpt
    None = None
    Providers = {groq, deepseek, gemini, openai}
    Requested = groq
    MaxDepth = 2
    Models = {llama, chat, reasoner, flash, gpt}
    ActiveModels = {llama, chat, reasoner, gpt}
    ProviderOf <- Offers
    Price <- Tariff
    Factor <- Markups
    Asked = llama
    Units = {1, 2}
    Credit = 4
    Customer = customer
    Request = request
SPECIFICATION GateSpec
INVARIANTS FirstUsableServes DecisionIsHonest EveryEndingSettles ChargeFitsCall
CHECK_DEADLOCK FALSE
